---- MODULE Spec2Model ----
(***************************************************************************)
(* A model of openfoodfacts-to-eatnlift (src/main.go): the record          *)
(* normaliser ProcessProduct with the allergen canonicaliser, the nutrient *)
(* extractor and the serving-size text parser it calls, and the loop of    *)
(* main that decodes the records and writes the items in chunk files.      *)
(*                                                                         *)
(* Go strings are modelled as sequences of runes, every rune a TLA+ string *)
(* (an ASCII rune is the one-character string, a non-ASCII rune is named   *)
(* by its code point, "U+212A").  float64 values are modelled as exact     *)
(* rationals [n, d] in lowest terms: every number the bounded inputs       *)
(* produce is a short decimal or a product of two, where float64           *)
(* comparison with 0, with 100 and with the parsed number agrees with the  *)
(* exact one.                                                              *)
(***************************************************************************)
EXTENDS Integers, Sequences, FiniteSets, TLC

\* The bounds of the model: the pre-tagged allergens of a record, and the
\* calls of ProcessProduct on one record.
MaxTags == 2
MaxRuns == 2

\* main.go 209, scaled down from 50000; the records of an input stream; the
\* chunk files a run may create.
CHUNK_SIZE == 2
MaxStream == 4
MaxChunks == MaxStream + 2

(***************************************************************************)
(* Strings                                                                 *)
(***************************************************************************)

\* A string literal as a sequence of runes.
Chars(s) == [i \in 1..Len(s) |-> SubSeq(s, i, i)]

Empty == <<>>

UpperLetters == Chars("ABCDEFGHIJKLMNOPQRSTUVWXYZ")
LowerLetters == Chars("abcdefghijklmnopqrstuvwxyz")
DigitSet == {"0", "1", "2", "3", "4", "5", "6", "7", "8", "9"}

\* The non-ASCII runes of the model: the Kelvin sign (upper case, its lower
\* case is the ASCII k), and the pair e-acute / E-acute.
KelvinSign == "U+212A"
SmallEAcute == "U+00E9"
CapitalEAcute == "U+00C9"
NoBreakSpace == "U+00A0"
NonAscii == {KelvinSign, SmallEAcute, CapitalEAcute, NoBreakSpace}

\* unicode.ToLower / unicode.ToUpper, rune by rune (strings.ToLower,
\* strings.ToUpper map them over the string).
ToLowerRune(c) ==
    IF \E i \in 1..26 : UpperLetters[i] = c
    THEN LowerLetters[CHOOSE i \in 1..26 : UpperLetters[i] = c]
    ELSE IF c = KelvinSign THEN "k"
    ELSE IF c = CapitalEAcute THEN SmallEAcute
    ELSE c

ToUpperRune(c) ==
    IF \E i \in 1..26 : LowerLetters[i] = c
    THEN UpperLetters[CHOOSE i \in 1..26 : LowerLetters[i] = c]
    ELSE IF c = SmallEAcute THEN CapitalEAcute
    ELSE c

ToLower(s) == [i \in 1..Len(s) |-> ToLowerRune(s[i])]
ToUpper(s) == [i \in 1..Len(s) |-> ToUpperRune(s[i])]

\* unicode.IsSpace (strings.TrimSpace) and the regexp class \s, which is
\* ASCII only.
UnicodeSpace == {" ", "\t", "\n", "\r", "\f", NoBreakSpace}
RegexSpace == {" ", "\t", "\n", "\r", "\f"}

\* The first index >= i whose rune is not in cutset (Len(s)+1 if none), and
\* the last index <= j whose rune is not in cutset (0 if none).
RECURSIVE SkipLeft(_, _, _)
SkipLeft(s, cutset, i) ==
    IF i <= Len(s) /\ s[i] \in cutset THEN SkipLeft(s, cutset, i + 1) ELSE i

RECURSIVE SkipRight(_, _, _)
SkipRight(s, cutset, j) ==
    IF j >= 1 /\ s[j] \in cutset THEN SkipRight(s, cutset, j - 1) ELSE j

\* strings.Trim(s, cutset)
Trim(s, cutset) ==
    LET i == SkipLeft(s, cutset, 1)
        j == SkipRight(s, cutset, Len(s))
    IN  IF i > j THEN Empty ELSE SubSeq(s, i, j)

TrimSpace(s) == Trim(s, UnicodeSpace)


\* strings.TrimPrefix / strings.TrimSuffix: one occurrence is removed.
TrimPrefix(s, p) ==
    IF Len(s) >= Len(p) /\ SubSeq(s, 1, Len(p)) = p THEN SubSeq(s, Len(p) + 1, Len(s)) ELSE s

TrimSuffix(s, p) ==
    IF Len(s) >= Len(p) /\ SubSeq(s, Len(s) - Len(p) + 1, Len(s)) = p
    THEN SubSeq(s, 1, Len(s) - Len(p)) ELSE s

\* strings.ReplaceAll(s, old, new) for a non-empty old: non-overlapping
\* occurrences, left to right.
RECURSIVE ReplaceFrom(_, _, _, _)
ReplaceFrom(s, old, new, i) ==
    IF i > Len(s) THEN Empty
    ELSE IF i + Len(old) - 1 <= Len(s) /\ SubSeq(s, i, i + Len(old) - 1) = old
         THEN new \o ReplaceFrom(s, old, new, i + Len(old))
         ELSE <<s[i]>> \o ReplaceFrom(s, old, new, i + 1)

ReplaceAll(s, old, new) == ReplaceFrom(s, old, new, 1)

\* strings.Split(s, sep) for a one-rune separator: always at least one piece.
RECURSIVE SplitFrom(_, _, _, _)
SplitFrom(s, sep, i, cur) ==
    IF i > Len(s) THEN <<cur>>
    ELSE IF s[i] = sep
         THEN <<cur>> \o SplitFrom(s, sep, i + 1, Empty)
         ELSE SplitFrom(s, sep, i + 1, Append(cur, s[i]))

Split(s, sep) == SplitFrom(s, sep, 1, Empty)

\* len(s) of Go: the number of bytes of the UTF-8 encoding.
ByteLen(s) ==
    Len(s) + Cardinality({i \in 1..Len(s) : s[i] \in {SmallEAcute, CapitalEAcute, NoBreakSpace}})
           + 2 * Cardinality({i \in 1..Len(s) : s[i] = KelvinSign})

(***************************************************************************)
(* Numbers: float64 as exact rationals in lowest terms                     *)
(***************************************************************************)

RECURSIVE Gcd(_, _)
Gcd(a, b) == IF b = 0 THEN a ELSE Gcd(b, a % b)

Rat(n, d) ==
    LET g == Gcd(IF n < 0 THEN -n ELSE n, IF d < 0 THEN -d ELSE d)
        sg == IF d < 0 THEN -1 ELSE 1
    IN  [n |-> sg * (n \div g), d |-> sg * (d \div g)]

RInt(k) == [n |-> k, d |-> 1]
RZero == RInt(0)
RMul(a, b) == Rat(a.n * b.n, a.d * b.d)
RDiv(a, b) == Rat(a.n * b.d, a.d * b.n)
RAdd(a, b) == Rat(a.n * b.d + b.n * a.d, a.d * b.d)
RGt(a, b) == a.n * b.d > b.n * a.d

RECURSIVE DigitsValue(_, _)
DigitsValue(s, acc) ==
    IF s = Empty THEN acc
    ELSE DigitsValue(Tail(s), 10 * acc + (CHOOSE i \in 1..10 : Chars("0123456789")[i] = Head(s)) - 1)

\* strconv.ParseFloat(s, 64) on a decimal literal: an optional sign, digits,
\* an optional point and digits.  ok = FALSE stands for a non-nil error.
\* (Exponents, hexadecimal literals, "inf" and "nan" are outside the inputs
\* of the model; they parse as errors here.)
ParseUnsigned(s) ==
    LET AllDigits(ds) == \A i \in 1..Len(ds) : ds[i] \in DigitSet
        points == {i \in 1..Len(s) : s[i] = "."}
        p == IF points = {} THEN 0 ELSE CHOOSE i \in points : \A k \in points : i <= k
        ip == IF p = 0 THEN s ELSE SubSeq(s, 1, p - 1)
        fp == IF p = 0 THEN Empty ELSE SubSeq(s, p + 1, Len(s))
    IN  IF AllDigits(ip) /\ AllDigits(fp) /\ Len(ip) + Len(fp) > 0
        THEN [ok |-> TRUE,
              v |-> Rat(DigitsValue(ip, 0) * 10^Len(fp) + DigitsValue(fp, 0), 10^Len(fp))]
        ELSE [ok |-> FALSE, v |-> RZero]

ParseFloat(s) ==
    IF s # Empty /\ Head(s) \in {"+", "-"}
    THEN LET r == ParseUnsigned(Tail(s))
         IN  IF r.ok /\ Head(s) = "-" THEN [ok |-> TRUE, v |-> Rat(-r.v.n, r.v.d)] ELSE r
    ELSE ParseUnsigned(s)

RECURSIVE NatToChars(_)
NatToChars(k) ==
    IF k < 10 THEN <<Chars("0123456789")[k + 1]>>
    ELSE NatToChars(k \div 10) \o <<Chars("0123456789")[(k % 10) + 1]>>

\* fmt.Sprintf("%.4f", n/d) for n >= 0, d > 0: the quotient rounded to four
\* decimals.  An exact tie can only be a value the float64 holds exactly,
\* and is rounded to even as strconv does.
Format4(q) ==
    LET PadLeft(ds, w) == [i \in 1..(w - Len(ds)) |-> "0"] \o ds
        num == q.n * 10000
        fl == num \div q.d
        rem == num % q.d
        r == IF 2 * rem > q.d \/ (2 * rem = q.d /\ fl % 2 = 1) THEN fl + 1 ELSE fl
    IN  NatToChars(r \div 10000) \o <<".">> \o PadLeft(NatToChars(r % 10000), 4)

(***************************************************************************)
(* Regular expressions (package regexp): leftmost-first matching.          *)
(*                                                                         *)
(* A pattern is a tree; Match gives, for a start position, every way the   *)
(* pattern can match from there, as the sequence of [j, caps] (the         *)
(* position after the match and the capture groups) in the order a         *)
(* backtracking matcher tries them: a greedy repetition prefers more, a    *)
(* lazy one less, an alternation its left branch.  The match regexp        *)
(* reports is the first of the sequence.                                   *)
(***************************************************************************)

Lit(str) == [t |-> "lit", s |-> Chars(str)]
Cls(set) == [t |-> "cls", neg |-> FALSE, set |-> set]
NotCls(set) == [t |-> "cls", neg |-> TRUE, set |-> set]
Cat(rs) == [t |-> "cat", rs |-> rs]
Cap(k, r) == [t |-> "cap", k |-> k, r |-> r]
Rep(r, min, many, greedy) == [t |-> "rep", r |-> r, min |-> min, many |-> many, greedy |-> greedy]
Star(r) == Rep(r, 0, TRUE, TRUE)
Plus(r) == Rep(r, 1, TRUE, TRUE)
LazyPlus(r) == Rep(r, 1, TRUE, FALSE)
Opt(r) == Rep(r, 0, FALSE, TRUE)
Bol == [t |-> "bol"]
Eol == [t |-> "eol"]

\* An alternation of literals, (g|gr|grm).
Words(ws) == [t |-> "alt", rs |-> [i \in 1..Len(ws) |-> Lit(ws[i])]]

\* Under (?i) a literal rune matches every rune of its case-folding orbit:
\* k matches k, K and the Kelvin sign.
SameRune(ci, c, l) == IF ci THEN ToLowerRune(c) = ToLowerRune(l) ELSE c = l

NoCaps == [k \in 1..6 |-> <<0, 0>>]

RECURSIVE Match(_, _, _, _, _)
RECURSIVE MatchCat(_, _, _, _, _, _)
RECURSIVE MatchEach(_, _, _, _, _, _)
RECURSIVE MatchAlt(_, _, _, _, _, _)
RECURSIVE MatchRep(_, _, _, _, _, _)
RECURSIVE MatchRepEach(_, _, _, _, _, _)

SetCap(rs, k, i) == [x \in 1..Len(rs) |-> [j |-> rs[x].j, caps |-> [rs[x].caps EXCEPT ![k] = <<i, rs[x].j>>]]]

Match(r, ci, s, i, caps) ==
    CASE r.t = "lit" ->
           IF i + Len(r.s) - 1 <= Len(s)
              /\ \A k \in 1..Len(r.s) : SameRune(ci, s[i + k - 1], r.s[k])
           THEN <<[j |-> i + Len(r.s), caps |-> caps]>> ELSE <<>>
      [] r.t = "cls" ->
           IF i <= Len(s) /\ ((s[i] \in r.set) # r.neg)
           THEN <<[j |-> i + 1, caps |-> caps]>> ELSE <<>>
      [] r.t = "bol" -> IF i = 1 THEN <<[j |-> i, caps |-> caps]>> ELSE <<>>
      [] r.t = "eol" -> IF i = Len(s) + 1 THEN <<[j |-> i, caps |-> caps]>> ELSE <<>>
      [] r.t = "cap" -> SetCap(Match(r.r, ci, s, i, caps), r.k, i)
      [] r.t = "alt" -> MatchAlt(r.rs, 1, ci, s, i, caps)
      [] r.t = "cat" -> MatchCat(r.rs, 1, ci, s, i, caps)
      [] r.t = "rep" -> MatchRep(r, 0, ci, s, i, caps)

MatchAlt(rs, k, ci, s, i, caps) ==
    IF k > Len(rs) THEN <<>>
    ELSE Match(rs[k], ci, s, i, caps) \o MatchAlt(rs, k + 1, ci, s, i, caps)

\* rs[k..] from position i.
MatchCat(rs, k, ci, s, i, caps) ==
    IF k > Len(rs) THEN <<[j |-> i, caps |-> caps]>>
    ELSE MatchEach(rs, k + 1, ci, s, Match(rs[k], ci, s, i, caps), 1)

\* rs[k..] continued from each of the matches `from`, in their order.
MatchEach(rs, k, ci, s, from, x) ==
    IF x > Len(from) THEN <<>>
    ELSE MatchCat(rs, k, ci, s, from[x].j, from[x].caps)
         \o MatchEach(rs, k, ci, s, from, x + 1)

\* A repetition that has matched `done` times already.
MatchRep(r, done, ci, s, i, caps) ==
    LET stop == IF done >= r.min THEN <<[j |-> i, caps |-> caps]>> ELSE <<>>
        more == IF r.many \/ done = 0
                THEN MatchRepEach(r, done + 1, ci, s, Match(r.r, ci, s, i, caps), 1)
                ELSE <<>>
    IN  IF r.greedy THEN more \o stop ELSE stop \o more

MatchRepEach(r, done, ci, s, from, x) ==
    IF x > Len(from) THEN <<>>
    ELSE MatchRep(r, done, ci, s, from[x].j, from[x].caps)
         \o MatchRepEach(r, done, ci, s, from, x + 1)

\* re.FindStringSubmatch / FindStringIndex from position `i` on: the
\* leftmost start that matches, and there the first match.
RECURSIVE FindFrom(_, _, _, _)
FindFrom(r, ci, s, i) ==
    IF i > Len(s) + 1 THEN [found |-> FALSE, i |-> 0, j |-> 0, caps |-> NoCaps]
    ELSE LET ms == Match(r, ci, s, i, NoCaps)
         IN  IF ms # <<>>
             THEN [found |-> TRUE, i |-> i, j |-> ms[1].j, caps |-> ms[1].caps]
             ELSE FindFrom(r, ci, s, i + 1)

Find(r, ci, s) == FindFrom(r, ci, s, 1)

\* matches[k] of FindStringSubmatch: the text of group k, "" if unset.
Group(s, m, k) ==
    IF m.caps[k] = <<0, 0>> THEN Empty ELSE SubSeq(s, m.caps[k][1], m.caps[k][2] - 1)

\* re.FindAllStringIndex(s, -1): successive non-overlapping matches (the
\* patterns used with it never match the empty string).
RECURSIVE FindAllFrom(_, _, _, _)
FindAllFrom(r, ci, s, i) ==
    LET m == FindFrom(r, ci, s, i)
    IN  IF ~m.found THEN <<>>
        ELSE <<m>> \o FindAllFrom(r, ci, s, IF m.j > m.i THEN m.j ELSE m.j + 1)

FindAll(r, ci, s) == FindAllFrom(r, ci, s, 1)

\* re.ReplaceAllString(s, new) for a replacement without $ references.
RECURSIVE ReplaceMatches(_, _, _, _, _)
ReplaceMatches(s, ms, x, i, new) ==
    IF x > Len(ms) THEN SubSeq(s, i, Len(s))
    ELSE SubSeq(s, i, ms[x].i - 1) \o new \o ReplaceMatches(s, ms, x + 1, ms[x].j, new)

RegexReplaceAll(r, ci, s, new) == ReplaceMatches(s, FindAll(r, ci, s), 1, 1, new)

\* The pieces the patterns of main.go share.
Number == Cat(<<Star(Cls(DigitSet)), Opt(Lit(".")), Plus(Cls(DigitSet))>>)
Spaces == Star(Cls(RegexSpace))
Spaces1 == Plus(Cls(RegexSpace))

(***************************************************************************)
(* The unit tables                                                         *)
(***************************************************************************)

StrSet(ws) == {Chars(ws[i]) : i \in 1..Len(ws)}

\* 28.3495 and 453.592 are the grams of an ounce and of a pound.
convertToGrams(quantity, unit) ==
    LET u == ToLower(unit)
    IN  CASE u \in StrSet(<<"g", "gram", "grams", "gr", "grm", "g.", "gr.", "grm.">>) ->
               quantity
          [] u \in StrSet(<<"kg", "kilogram", "kilograms">>) -> RMul(quantity, RInt(1000))
          [] u \in StrSet(<<"mg", "milligram", "milligrams">>) -> RDiv(quantity, RInt(1000))
          [] u \in StrSet(<<"oz", "ounces", "oz.", "ounce", "onz", "ozn", "oza">>) ->
               RMul(quantity, Rat(283495, 10000))
          [] u \in StrSet(<<"lb", "pound", "pounds">>) -> RMul(quantity, Rat(453592, 1000))
          [] u \in StrSet(<<"ml">>) -> quantity
          [] u \in StrSet(<<"l", "liter", "litre", "liters", "litres">>) ->
               RMul(quantity, RInt(1000))
          [] OTHER -> RZero

isMetricUnit(unit) ==
    unit \in StrSet(<<"g", "gram", "grams", "gr", "grm", "g.", "gr.", "grm.", "kg", "kilogram",
                      "kilograms", "ml", "l", "liter", "litre", "liters", "litres">>)

isImperialUnit(unit) ==
    unit \in StrSet(<<"oz", "ounce", "ounces", "onz", "ozn", "oza", "lb", "pound", "pounds",
                      "fl oz">>)

\* The serving types of ServingSize.Type: 1 metric, 2 imperial, 3 other.
servingTypeOf(measurementUnit) ==
    LET lowerUnit == ToLower(measurementUnit)
    IN  IF isMetricUnit(lowerUnit) THEN 1
        ELSE IF isImperialUnit(lowerUnit) THEN 2
        ELSE 3

estimateWeightFromUnit(quantity, unit) ==
    LET lowerUnit == ToLower(unit)
    IN  CASE lowerUnit \in StrSet(<<"cup", "cups">>) -> RMul(quantity, RInt(240))
          [] lowerUnit \in StrSet(<<"tbsp", "tablespoon", "tablespoons">>) -> RMul(quantity, RInt(15))
          [] lowerUnit \in StrSet(<<"tsp", "teaspoon", "teaspoons">>) -> RMul(quantity, RInt(5))
          [] lowerUnit \in StrSet(<<"slice", "slices">>) -> RMul(quantity, RInt(28))
          [] lowerUnit \in StrSet(<<"cookie", "cookies">>) -> RMul(quantity, RInt(15))
          [] OTHER -> RZero

extractWeightFromMeasurementUnit(measurementUnit) ==
    LET m == Find(Cat(<<Cap(1, Number), Spaces,
                    Cap(2, Words(<<"g", "gr", "grm", "gram", "kg", "mg", "ml", "l", "oz", "ounces", "fl oz">>))>>),
                  TRUE, measurementUnit)
    IN  IF m.found
        THEN LET w == ParseFloat(TrimSpace(Group(measurementUnit, m, 1)))
             IN  IF w.ok THEN convertToGrams(w.v, Group(measurementUnit, m, 2)) ELSE RZero
        ELSE RZero

(***************************************************************************)
(* Cleaning the serving-size text                                          *)
(***************************************************************************)

descriptors ==
    <<"chips", "slice", "slices", "cookie", "cookies", "pouch", "pouches", "can", "cans",
      "bottle", "bottles", "box", "boxes", "bag", "bags", "piece", "pieces">>

\* handleDescriptors: every descriptor in turn is removed from the start.
\* (The test on Len has TLC compute the rewritten text before the next step.)
RECURSIVE handleDescriptorsFrom(_, _)
handleDescriptorsFrom(input, k) ==
    IF k > Len(descriptors) THEN input
    ELSE LET next == RegexReplaceAll(Cat(<<Bol, Lit(descriptors[k]), Spaces1>>), TRUE,
                                     input, Empty)
         IN  IF Len(next) >= 0 THEN handleDescriptorsFrom(next, k + 1) ELSE input

handleDescriptors(input) == handleDescriptorsFrom(input, 1)

\* convertFractions: the matches are found in the original text, and each
\* is then replaced, everywhere it occurs, in the text as rewritten so far.
RECURSIVE convertFractionsFrom(_, _, _, _)
convertFractionsFrom(orig, ms, x, input) ==
    IF x > Len(ms) THEN input
    ELSE LET numerator == ParseFloat(Group(orig, ms[x], 1)).v
             denominator == ParseFloat(Group(orig, ms[x], 2)).v
             whole == SubSeq(orig, ms[x].i, ms[x].j - 1)
             next == IF denominator # RZero
                     THEN ReplaceAll(input, whole, Format4(RDiv(numerator, denominator)))
                     ELSE input
         IN  IF Len(next) >= 0 THEN convertFractionsFrom(orig, ms, x + 1, next) ELSE input

convertFractions(input) ==
    convertFractionsFrom(input,
                         FindAll(Cat(<<Cap(1, Plus(Cls(DigitSet))), Spaces, Lit("/"), Spaces,
                                       Cap(2, Plus(Cls(DigitSet)))>>), FALSE, input),
                         1, input)

\* A variant of removeNestedParentheses that keeps every group.
keepEveryGroup(input) == input

removeNestedParentheses(input) ==
    LET matches == FindAll(Cat(<<Lit("("), Star(NotCls({"(", ")"})), Lit(")")>>), FALSE, input)
    IN  IF Len(matches) > 1 THEN SubSeq(input, 1, matches[1].j - 1) ELSE input

cleanServingSize(servingSizeStr) ==
    LET s1 == TrimSpace(TrimSpace(servingSizeStr))
        s2 == TrimSuffix(s1, Chars("|"))
        s3 == ReplaceAll(s2, Chars("OZA"), Chars("OZ"))
        s4 == ReplaceAll(s3, Chars("OZN"), Chars("OZ"))
        s5 == ReplaceAll(s4, Chars("ONZ"), Chars("OZ"))
        s6 == ReplaceAll(s5, Chars("Amount per serving"), Chars("Serving"))
        s7 == ReplaceAll(s6, Chars("FL.OZ"), Chars("FL OZ"))
        s8 == ReplaceAll(s7, Chars(","), Chars("."))
        s9 == RegexReplaceAll(Spaces1, FALSE, s8, Chars(" "))
        s10 == Trim(s9, {"|"})
        s11 == handleDescriptors(s10)
        s12 == ReplaceAll(s11, Chars(","), Chars("."))
        s13 == convertFractions(s12)
    IN  removeNestedParentheses(s13)

(***************************************************************************)
(* parseServingSize: the cascade of patterns                               *)
(***************************************************************************)

\* `^(\d*\.?\d+)\s*(g|gr|grm|gram|kg|mg|ml|l)$`, case-sensitive
bareWeightPattern ==
    Cat(<<Bol, Cap(1, Number), Spaces,
          Cap(2, Words(<<"g", "gr", "grm", "gram", "kg", "mg", "ml", "l">>)), Eol>>)

\* `(?i)^(?:(\d*\.?\d+)\s+)?([^\(]+?)\s*(?:\(\s*(\d*\.?\d+)\s*(g|...|cup|cups)\s*\))?$`
labelWeightPattern ==
    Cat(<<Bol, Opt(Cat(<<Cap(1, Number), Spaces1>>)), Cap(2, LazyPlus(NotCls({"("}))), Spaces,
          Opt(Cat(<<Lit("("), Spaces, Cap(3, Number), Spaces,
                    Cap(4, Words(<<"g", "gr", "grm", "gram", "kg", "mg", "ml", "l", "oz",
                                   "fl oz", "ounces", "cup", "cups">>)),
                    Spaces, Lit(")")>>)),
          Eol>>)

\* `(?i)^(?:(\d*\.?\d+)\s+([^\(]+?))\s*(?:\(\s*(\d*\.?\d+)\s*(g|...|ounces)\s*\))?$`
qtyLabelWeightPattern ==
    Cat(<<Bol, Cap(1, Number), Spaces1, Cap(2, LazyPlus(NotCls({"("}))), Spaces,
          Opt(Cat(<<Lit("("), Spaces, Cap(3, Number), Spaces,
                    Cap(4, Words(<<"g", "gr", "grm", "gram", "kg", "mg", "ml", "l", "oz",
                                   "fl oz", "ounces">>)),
                    Spaces, Lit(")")>>)),
          Eol>>)

\* `(?i)^(?:(\d*\.?\d+)\s+([^\(]+?))\s*\(\s*(\d*\.?\d+)\s*(g|gr|grm|gram|kg|ml|l|oz|fl oz|ounces)\s*\)$`
bottlePattern ==
    Cat(<<Bol, Cap(1, Number), Spaces1, Cap(2, LazyPlus(NotCls({"("}))), Spaces,
          Lit("("), Spaces, Cap(3, Number), Spaces,
          Cap(4, Words(<<"g", "gr", "grm", "gram", "kg", "ml", "l", "oz", "fl oz", "ounces">>)),
          Spaces, Lit(")"), Eol>>)

\* `(?i)^(?:(\d*\.?\d+)\s+([^\(]+?))\s+(\d*\.?\d+)\s*(oz|ounces)\s*/\s*(\d*\.?\d+)\s*(g|gr|grm|gram)$`
slashPattern ==
    Cat(<<Bol, Cap(1, Number), Spaces1, Cap(2, LazyPlus(NotCls({"("}))), Spaces1,
          Cap(3, Number), Spaces, Cap(4, Words(<<"oz", "ounces">>)), Spaces, Lit("/"), Spaces,
          Cap(5, Number), Spaces, Cap(6, Words(<<"g", "gr", "grm", "gram">>)), Eol>>)

\* `(?i)^(?:(\d*\.?\d+)\s*(g|gr|grm|gram|ml|l|oz|fl oz))\s*\(\s*(\d*\.?\d+)?\s*([^\)]+)\s*\)$`
weightFirstPattern ==
    Cat(<<Bol, Cap(1, Number), Spaces,
          Cap(2, Words(<<"g", "gr", "grm", "gram", "ml", "l", "oz", "fl oz">>)), Spaces,
          Lit("("), Spaces, Opt(Cap(3, Number)), Spaces, Cap(4, Plus(NotCls({")"}))), Spaces,
          Lit(")"), Eol>>)

\* `(?i)^(?:(\d*\.?\d+)\s+([^\(]+))\s*\(\s*(\d*\.?\d+)\s*(?:g|gr|grm|gram)\s*\)$`
slicesPattern ==
    Cat(<<Bol, Cap(1, Number), Spaces1, Cap(2, Plus(NotCls({"("}))), Spaces,
          Lit("("), Spaces, Cap(3, Number), Spaces, Words(<<"g", "gr", "grm", "gram">>), Spaces, Lit(")"), Eol>>)

\* `(?i)^(?:(\d*\.?\d+)\s*(g|gr|grm|gram|ml|oz|fl oz))\s*\(\s*(\d*\.?\d+)\s*(?:g|gr|grm|gram)\s*\)$`
gramConfirmPattern ==
    Cat(<<Bol, Cap(1, Number), Spaces,
          Cap(2, Words(<<"g", "gr", "grm", "gram", "ml", "oz", "fl oz">>)), Spaces,
          Lit("("), Spaces, Cap(3, Number), Spaces, Words(<<"g", "gr", "grm", "gram">>), Spaces, Lit(")"), Eol>>)

\* `(?i)^([^\s]+)\s+(\d*\.?\d+)\s*(g|gr|grm|gram|ml|oz|fl oz)$`
reUnit ==
    Cat(<<Bol, Cap(1, Plus(NotCls(RegexSpace))), Spaces1, Cap(2, Number), Spaces,
          Cap(3, Words(<<"g", "gr", "grm", "gram", "ml", "oz", "fl oz">>)), Eol>>)

\* `(?i)^(\d*\.?\d+)\s*(g|gr|grm|gram|ml|oz|fl oz)$`
reSimple ==
    Cat(<<Bol, Cap(1, Number), Spaces,
          Cap(2, Words(<<"g", "gr", "grm", "gram", "ml", "oz", "fl oz">>)), Eol>>)

Parsed(quantity, measurementUnit, weightInGrams, servingType) ==
    [quantity |-> quantity, measurementUnit |-> measurementUnit,
     weightInGrams |-> weightInGrams, servingType |-> servingType]

\* strconv.ParseFloat of a trimmed group, and the value the code keeps when
\* it fails: 1.0 for a quantity, 0.0 for a weight.
ParseOr(str, default) ==
    LET q == ParseFloat(TrimSpace(str)) IN IF q.ok THEN q.v ELSE default

\* The branch of labelWeightPattern (main.go 654-705).
labelWeightBranch(s, m) ==
    LET qtyStr == Group(s, m, 1)
        weightQtyStr == Group(s, m, 3)
        weightUnit == ToLower(Group(s, m, 4))
        quantity == IF qtyStr = Empty THEN RInt(1) ELSE ParseOr(qtyStr, RInt(1))
        measurementUnit == TrimSuffix(TrimSpace(Group(s, m, 2)), Chars(" e"))
        w0 == IF weightQtyStr # Empty /\ weightUnit # Empty
              THEN LET w == ParseFloat(TrimSpace(weightQtyStr))
                   IN  IF w.ok THEN convertToGrams(w.v, weightUnit) ELSE RZero
              ELSE RZero
        w1 == IF w0 = RZero THEN extractWeightFromMeasurementUnit(measurementUnit) ELSE w0
        w2 == IF w1 = RZero THEN estimateWeightFromUnit(quantity, measurementUnit) ELSE w1
    IN  Parsed(quantity, measurementUnit, w2, servingTypeOf(measurementUnit))

\* The branch of qtyLabelWeightPattern (main.go 710-751).
qtyLabelWeightBranch(s, m) ==
    LET weightQtyStr == Group(s, m, 3)
        weightUnit == ToLower(Group(s, m, 4))
        quantity == ParseOr(Group(s, m, 1), RInt(1))
        measurementUnit == TrimSpace(Group(s, m, 2))
        w0 == IF weightQtyStr # Empty /\ weightUnit # Empty
              THEN LET w == ParseFloat(TrimSpace(weightQtyStr))
                   IN  IF w.ok THEN convertToGrams(w.v, weightUnit) ELSE RZero
              ELSE RZero
        w1 == IF w0 = RZero THEN estimateWeightFromUnit(quantity, measurementUnit) ELSE w0
    IN  Parsed(quantity, measurementUnit, w1, servingTypeOf(measurementUnit))

\* The branch of bottlePattern (main.go 756-791).
bottleBranch(s, m) ==
    LET measurementUnit == TrimSpace(Group(s, m, 2))
    IN  Parsed(ParseOr(Group(s, m, 1), RInt(1)), measurementUnit,
               convertToGrams(ParseOr(Group(s, m, 3), RZero), ToLower(Group(s, m, 4))),
               servingTypeOf(measurementUnit))

\* The branch of slashPattern (main.go 796-822): the gram figure as written.
slashBranch(s, m) ==
    Parsed(ParseOr(Group(s, m, 1), RInt(1)), TrimSpace(Group(s, m, 2)),
           ParseOr(Group(s, m, 5), RZero), 3)

\* The branch of weightFirstPattern (main.go 827-868).
weightFirstBranch(s, m) ==
    LET qtyStr == Group(s, m, 3)
        measurementUnit == TrimSpace(Group(s, m, 4))
    IN  Parsed(IF qtyStr = Empty THEN RInt(1) ELSE ParseOr(qtyStr, RInt(1)), measurementUnit,
               convertToGrams(ParseOr(Group(s, m, 1), RZero), ToLower(Group(s, m, 2))),
               servingTypeOf(measurementUnit))

\* The branches of slicesPattern and gramConfirmPattern (main.go 873-905,
\* 910-942): the same code.
gramsBranch(s, m) ==
    LET measurementUnit == TrimSpace(Group(s, m, 2))
    IN  Parsed(ParseOr(Group(s, m, 1), RInt(1)), measurementUnit, ParseOr(Group(s, m, 3), RZero),
               servingTypeOf(measurementUnit))

\* The branch of reUnit (main.go 947-970).
reUnitBranch(s, m) ==
    LET quantity == ParseOr(Group(s, m, 2), RInt(1))
        measurementUnit == TrimSpace(Group(s, m, 1))
    IN  Parsed(quantity, measurementUnit, convertToGrams(quantity, Group(s, m, 3)),
               servingTypeOf(measurementUnit))

\* The branch of reSimple (main.go 975-998).
reSimpleBranch(s, m) ==
    LET quantity == ParseOr(Group(s, m, 1), RInt(1))
        measurementUnit == TrimSpace(Group(s, m, 2))
    IN  Parsed(quantity, measurementUnit, quantity, servingTypeOf(measurementUnit))

\* The patterns after the first, in the order they are tried; the first that
\* matches decides, and the text itself is the unit when none does.
cascade(s) ==
    LET m2 == Find(labelWeightPattern, TRUE, s)
        m3 == Find(qtyLabelWeightPattern, TRUE, s)
        m4 == Find(bottlePattern, TRUE, s)
        m5 == Find(slashPattern, TRUE, s)
        m6 == Find(weightFirstPattern, TRUE, s)
        m7 == Find(slicesPattern, TRUE, s)
        m8 == Find(gramConfirmPattern, TRUE, s)
        m9 == Find(reUnit, TRUE, s)
        m10 == Find(reSimple, TRUE, s)
    IN  IF m2.found THEN labelWeightBranch(s, m2)
        ELSE IF m3.found THEN qtyLabelWeightBranch(s, m3)
        ELSE IF m4.found THEN bottleBranch(s, m4)
        ELSE IF m5.found THEN slashBranch(s, m5)
        ELSE IF m6.found THEN weightFirstBranch(s, m6)
        ELSE IF m7.found THEN gramsBranch(s, m7)
        ELSE IF m8.found THEN gramsBranch(s, m8)
        ELSE IF m9.found THEN reUnitBranch(s, m9)
        ELSE IF m10.found THEN reSimpleBranch(s, m10)
        ELSE Parsed(RInt(1), s, RZero, 3)

\* The branch of bareWeightPattern (main.go 627-649): a bare weight is kept
\* only when its unit leaves the figure as it is; the text goes on to the
\* other patterns otherwise.
bareWeightBranch(s, m) ==
    LET weightQty == ParseFloat(Group(s, m, 1))
        weightInGrams == convertToGrams(weightQty.v, Group(s, m, 2))
    IN  IF m.found /\ ~weightQty.ok THEN Parsed(RInt(1), s, RZero, 3)
        ELSE IF m.found /\ weightInGrams = weightQty.v
             THEN Parsed(RInt(1), Chars("Serving"), weightInGrams, 3)
             ELSE cascade(s)

\* The patterns applied to the cleaned text.
parseCleaned(s) == bareWeightBranch(s, Find(bareWeightPattern, FALSE, s))

parseServingSize(servingSizeStr) == parseCleaned(cleanServingSize(servingSizeStr))

(***************************************************************************)
(* The allergen normaliser                                                 *)
(***************************************************************************)

\* var AllergenMap: the raw keys and their canonical tokens, as written.
AllergenPairs ==
    <<<<"MILK", "milk">>, <<"EGGS", "eggs">>, <<"EGG", "eggs">>,
      <<"FISH", "fish">>, <<"SHELLFISH", "shellfish">>, <<"CRUSTACEAN SHELLFISH", "crustacean_shellfish">>,
      <<"CRUSTACEAN_SHELLFISH", "crustacean_shellfish">>, <<"TREE NUTS", "tree_nuts">>, <<"TREE_NUTS", "tree_nuts">>,
      <<"PEANUTS", "peanuts">>, <<"PEANUT", "peanuts">>, <<"WHEAT", "wheat">>,
      <<"SOY", "soy">>, <<"SOYBEAN", "soy">>, <<"SOYBEANS", "soy">>,
      <<"SESAME", "sesame">>, <<"ALMONDS", "almonds">>, <<"ALMOND", "almonds">>,
      <<"NUTS", "nuts">>, <<"BRAZIL NUT", "brazil_nuts">>, <<"BRAZIL_NUT", "brazil_nuts">>,
      <<"BRAZIL NUTS", "brazil_nuts">>, <<"BRAZIL_NUTS", "brazil_nuts">>, <<"CASHEWS", "cashews">>,
      <<"HAZELNUTS", "hazelnuts">>, <<"MACADAMIA NUTS", "macadamia_nuts">>, <<"MACADAMIA_NUTS", "macadamia_nuts">>,
      <<"PECANS", "pecans">>, <<"PINE NUTS", "pine_nuts">>, <<"PINE_NUTS", "pine_nuts">>,
      <<"PISTACHIOS", "pistachios">>, <<"WALNUTS", "walnuts">>, <<"ANCHOVY", "anchovy">>,
      <<"COD", "cod">>, <<"MAHI MAHI", "mahi_mahi">>, <<"MAHI_MAHI", "mahi_mahi">>,
      <<"SALMON", "salmon">>, <<"TUNA", "tuna">>, <<"CRAB", "crab">>,
      <<"CRABS", "crab">>, <<"LOBSTER", "lobster">>, <<"LOBSTERS", "lobster">>,
      <<"SHRIMP", "shrimp">>, <<"SHRIMPS", "shrimp">>, <<"CLAMS", "clams">>,
      <<"CLAM", "clams">>, <<"MUSSELS", "mussels">>, <<"MUSSEL", "mussels">>,
      <<"OYSTERS", "oysters">>, <<"OYSTER", "oysters">>, <<"SCALLOPS", "scallops">>,
      <<"SCALLOP", "scallops">>, <<"BARLEY", "barley">>, <<"RYE", "rye">>,
      <<"OATS", "oats">>, <<"TRITICALE", "triticale">>, <<"GLUTEN", "gluten">>,
      <<"CELERY", "celery">>, <<"MUSTARD", "mustard">>, <<"SULFITES", "sulfites">>,
      <<"LUPIN", "lupin">>, <<"MOLLUSKS", "mollusks">>, <<"CORN", "corn">>,
      <<"GELATIN", "gelatin">>, <<"SEEDS", "seeds">>, <<"SUNFLOWER SEEDS", "sunflower_seeds">>,
      <<"SUNFLOWER_SEEDS", "sunflower_seeds">>, <<"POPPY SEEDS", "poppy_seeds">>, <<"POPPY_SEEDS", "poppy_seeds">>,
      <<"COTTONSEED", "cottonseed">>, <<"COCONUT", "coconut">>, <<"PALM", "palm">>,
      <<"BUCKWHEAT", "buckwheat">>, <<"BEEF", "beef">>, <<"PORK", "pork">>,
      <<"CHICKEN", "chicken">>, <<"GARLIC", "garlic">>, <<"ONION", "onion">>,
      <<"TOMATO", "tomato">>, <<"LATEX", "latex">>, <<"CARMINE", "carmine">>,
      <<"COCHINEAL", "cochineal">>, <<"ANNATTO", "annatto">>, <<"MSG", "msg">>,
      <<"SULFUR DIOXIDE", "sulfur_dioxide">>, <<"SULFUR_DIOXIDE", "sulfur_dioxide">>, <<"BENZOATES", "benzoates">>,
      <<"FOOD COLORS", "food_colors">>, <<"FOOD_COLORS", "food_colors">>, <<"YELLOW 5", "yellow_5">>,
      <<"YELLOW_5", "yellow_5">>, <<"RED 40", "red_40">>, <<"RED_40", "red_40">>>>

AllergenKeys == {Chars(AllergenPairs[i][1]) : i \in 1..Len(AllergenPairs)}

AllergenMap ==
    [k \in AllergenKeys |->
       Chars(AllergenPairs[CHOOSE i \in 1..Len(AllergenPairs) : Chars(AllergenPairs[i][1]) = k][2])]

\* A variant of the key that keeps the "EN:" prefix.
allergenKeyWithPrefix(raw) == ToUpper(TrimSpace(raw))

\* The key both functions look up.
allergenKey(raw) == TrimPrefix(ToUpper(TrimSpace(raw)), Chars("EN:"))

normalizeAllergen(allergen) ==
    LET upperAllergen == allergenKey(allergen)
    IN  IF upperAllergen \in DOMAIN AllergenMap THEN AllergenMap[upperAllergen]
        ELSE ToLower(allergen)

extractIngredientAllergen(ingredientTag) ==
    LET upperIngredientTag == allergenKey(ingredientTag)
    IN  IF upperIngredientTag \in DOMAIN AllergenMap THEN AllergenMap[upperIngredientTag]
        ELSE Empty

(***************************************************************************)
(* The nutrient extractor                                                  *)
(*                                                                         *)
(* A value of the nutriments map is a JSON number [k |-> "float64", v],    *)
(* a JSON string [k |-> "string", s] or anything else [k |-> "other"].     *)
(***************************************************************************)

toFloat64(value) ==
    CASE value.k = "float64" -> [ok |-> TRUE, v |-> value.v]
      [] value.k = "string" -> ParseFloat(TrimSpace(value.s))
      [] OTHER -> [ok |-> FALSE, v |-> RZero]

convertUnit(unitConversion, fval) ==
    CASE unitConversion = "g_to_mg" -> RMul(fval, RInt(1000))
      [] unitConversion = "g_to_ug" -> RMul(fval, RInt(1000000))
      [] OTHER -> fval

\* A variant of mapNutrientFrom that decides on the first key the map holds.
RECURSIVE mapNutrientFirstPresent(_, _, _, _, _)
mapNutrientFirstPresent(field, nutriments, unitConversion, keys, k) ==
    IF k > Len(keys) THEN field
    ELSE IF keys[k] \in DOMAIN nutriments
         THEN IF toFloat64(nutriments[keys[k]]).ok
              THEN convertUnit(unitConversion, toFloat64(nutriments[keys[k]]).v)
              ELSE field
         ELSE mapNutrientFirstPresent(field, nutriments, unitConversion, keys, k + 1)

\* mapNutrient: the value written to *field, which keeps `field` when no
\* key gives a number.  keys[k..] are still to be tried.
RECURSIVE mapNutrientFrom(_, _, _, _, _)
mapNutrientFrom(field, nutriments, unitConversion, keys, k) ==
    IF k > Len(keys) THEN field
    ELSE IF keys[k] \in DOMAIN nutriments /\ toFloat64(nutriments[keys[k]]).ok
         THEN convertUnit(unitConversion, toFloat64(nutriments[keys[k]]).v)
         ELSE mapNutrientFrom(field, nutriments, unitConversion, keys, k + 1)

mapNutrient(field, nutriments, unitConversion, keys) ==
    mapNutrientFrom(field, nutriments, unitConversion, keys, 1)

\* The mapNutrient calls of ProcessProduct: the field, the conversion and the
\* key without its suffix; the same 35 rows for "_100g" and for "_serving".
nutrientTable ==
    <<<<"Calories", "", "energy-kcal">>, <<"Protein", "", "proteins">>,
      <<"Fat", "", "fat">>, <<"Carbs", "", "carbohydrates">>,
      <<"Fiber", "", "fiber">>, <<"Sugar", "", "sugars">>,
      <<"Sodium", "g_to_mg", "sodium">>, <<"Cholesterol", "g_to_mg", "cholesterol">>,
      <<"Calcium", "g_to_mg", "calcium">>, <<"Iron", "g_to_mg", "iron">>,
      <<"Potassium", "g_to_mg", "potassium">>, <<"Magnesium", "g_to_mg", "magnesium">>,
      <<"Zinc", "g_to_mg", "zinc">>, <<"VitaminAIU", "", "vitamin-a_iu">>,
      <<"VitaminC", "g_to_mg", "vitamin-c">>, <<"VitaminD", "g_to_ug", "vitamin-d">>,
      <<"VitaminDIU", "", "vitamin-d_iu">>, <<"VitaminE", "g_to_mg", "vitamin-e">>,
      <<"VitaminK", "g_to_ug", "vitamin-k">>, <<"Thiamin", "g_to_mg", "thiamin">>,
      <<"Riboflavin", "g_to_mg", "riboflavin">>, <<"Niacin", "g_to_mg", "niacin">>,
      <<"VitaminB6", "g_to_mg", "vitamin-b6">>, <<"Folate", "g_to_ug", "folate">>,
      <<"VitaminB12", "g_to_ug", "vitamin-b12">>, <<"Phosphorus", "g_to_mg", "phosphorus">>,
      <<"Copper", "g_to_mg", "copper">>, <<"Manganese", "g_to_mg", "manganese">>,
      <<"Selenium", "g_to_ug", "selenium">>, <<"Water", "", "water">>,
      <<"Ash", "", "ash">>, <<"SaturatedFat", "", "saturated-fat">>,
      <<"MonounsaturatedFat", "", "monounsaturated-fat">>, <<"PolyunsaturatedFat", "", "polyunsaturated-fat">>,
      <<"TransFat", "", "trans-fat">>>>

\* A variant of extractNutrients that leaves the calories as extracted.
extractNutrientsAsExtracted(nutriments, suffix) ==
    [f \in {nutrientTable[i][1] : i \in 1..Len(nutrientTable)} |->
       mapNutrient(RZero, nutriments,
                   nutrientTable[CHOOSE i \in 1..Len(nutrientTable) : nutrientTable[i][1] = f][2],
                   <<nutrientTable[CHOOSE i \in 1..Len(nutrientTable) : nutrientTable[i][1] = f][3]
                       \o suffix>>)]

\* The 35 calls, every field starting from the zero value of the struct, and
\* then the calorie back-fill.
extractNutrients(nutriments, suffix) ==
    LET RowOf(f) == nutrientTable[CHOOSE i \in 1..Len(nutrientTable) : nutrientTable[i][1] = f]
        got == [f \in {nutrientTable[i][1] : i \in 1..Len(nutrientTable)} |->
                  mapNutrient(RZero, nutriments, RowOf(f)[2], <<RowOf(f)[3] \o suffix>>)]
    IN  IF got["Calories"] = RZero
        THEN [got EXCEPT !["Calories"] =
                RAdd(RAdd(RMul(got["Protein"], RInt(4)), RMul(got["Fat"], RInt(9))),
                     RMul(got["Carbs"], RInt(4)))]
        ELSE got

\* A ServingSize value.
ServingSize(measurementUnit, type, quantity, weightInGrams, nutrients) ==
    [MeasurementUnit |-> measurementUnit, Type |-> type, Quantity |-> quantity,
     WeightInGrams |-> weightInGrams, Nutrients |-> nutrients]

extractBrand(brands) == TrimSpace(Split(TrimSpace(brands), ",")[1])

toTitle(s) == ToUpper(SubSeq(s, 1, 1)) \o ToLower(SubSeq(s, 2, Len(s)))

isAsciiOnly(s) == \A i \in 1..Len(s) : s[i] \notin NonAscii

(***************************************************************************)
(* ProcessProduct, step by step                                            *)
(***************************************************************************)

\* The ProductNameXx fields of OpenFoodFactsProduct, in the order
\* ProcessProduct reads them, by the key each is stored under.
LanguageKeys ==
    StrSet(<<"en", "fr", "es", "de", "it", "nl", "pl", "pt", "uk", "bg", "ro", "el", "ru", "tr",
             "ar", "hi">>)

VARIABLES
    product,              \* the caller's record; its slices are shared with the callee
    given,                \* the record as the caller first passed it (history)
    pc,                   \* where ProcessProduct stands
    translations, name,   \* locals of ProcessProduct
    allergens, ingredientAllergens,
    per100gServing, parsed, servingSizes,
    foodItem, err,        \* what ProcessProduct returns
    runs, previous,       \* the calls made on this record, and what the last returned
    fn,                   \* a pure function under test: its input and its results
    main                  \* the loop of main: its position, its locals, the files

vars ==
    <<product, given, pc, translations, name, allergens, ingredientAllergens,
      per100gServing, parsed, servingSizes, foodItem, err, runs, previous, fn, main>>

locals ==
    <<translations, name, allergens, ingredientAllergens, per100gServing, parsed, servingSizes>>

\* A nil *FoodItem, a nil error, and the two errors.
NoItem == [nil |-> TRUE]
NoError == "nil"
EmptyKeyFields == "product ID or code is empty"
EmptyNameAndBarcode == "product name and barcode are empty"

NoMap == [k \in {} |-> Empty]
NoServing == [nil |-> TRUE]
NotParsed == Parsed(RZero, Empty, RZero, 0)

\* The locals before ProcessProduct has touched them.
LocalsUntouched ==
    /\ translations = NoMap
    /\ name = Empty
    /\ allergens = <<>>
    /\ ingredientAllergens = <<>>
    /\ per100gServing = NoServing
    /\ parsed = NotParsed
    /\ servingSizes = <<>>

\* Variants of the key check: one that needs both fields empty, one that
\* looks at the identifier only.
keyFieldsBothEmpty(p) == p.ID = Empty /\ p.Code = Empty

identifierEmpty(p) == p.ID = Empty

\* main.go 300: the record cannot be used.
keyFieldsEmpty(p) == p.ID = Empty \/ p.Code = Empty

\* main.go 304-352: the non-empty per-language names.
collectTranslations(p) ==
    [k \in {l \in LanguageKeys : p.ProductNames[l] # Empty} |-> p.ProductNames[k]]

Lookup(m, k) == IF k \in DOMAIN m THEN m[k] ELSE Empty

\* A variant of firstName that prefers the default name to the English one.
firstNameDefaultFirst(p, tr) ==
    IF p.ProductName # Empty THEN p.ProductName ELSE Lookup(tr, Chars("en"))

\* main.go 354-357
firstName(p, tr) ==
    IF Lookup(tr, Chars("en")) # Empty THEN Lookup(tr, Chars("en")) ELSE p.ProductName

\* main.go 359-362: a lone default name is registered under the declared language.
registerDefault(p, tr) ==
    IF p.ProductName # Empty /\ DOMAIN tr = {} /\ p.Lang # Empty
    THEN [k \in {ToLower(p.Lang)} |-> firstName(p, tr)]
    ELSE tr

\* main.go 364-367, with tr the translations after registerDefault
declaredName(p, tr) ==
    IF firstName(p, tr) = Empty /\ DOMAIN tr # {} /\ p.Lang # Empty
    THEN Lookup(tr, ToLower(p.Lang))
    ELSE firstName(p, tr)

\* main.go 369-374: `first` is the key the range over the map yields first.
chooseName(p, tr, first) ==
    IF declaredName(p, tr) = Empty /\ DOMAIN tr # {} THEN tr[first] ELSE declaredName(p, tr)

\* main.go 380
nameAndBarcodeEmpty(n, barcode) == n = Empty /\ barcode = Empty

\* main.go 384-387: the slice the loop normalises, and whether it is the
\* caller's own backing array.
allergenList(p) ==
    IF Len(p.AllergensTags) = 0 /\ p.Allergens # Empty
    THEN Split(p.Allergens, ",")
    ELSE p.AllergensTags

\* main.go 388-390
normalizeEach(list) == [i \in 1..Len(list) |-> normalizeAllergen(list[i])]

\* main.go 392-398
RECURSIVE harvest(_, _)
harvest(tags, i) ==
    IF i > Len(tags) THEN <<>>
    ELSE IF extractIngredientAllergen(tags[i]) # Empty
         THEN <<extractIngredientAllergen(tags[i])>> \o harvest(tags, i + 1)
         ELSE harvest(tags, i + 1)

\* main.go 404-451
buildPer100g(nutriments) ==
    ServingSize(Chars("g"), 1, RInt(100), RInt(100), extractNutrients(nutriments, "_100g"))

\* A variant of resolvedWeight without the re-estimation.
parserWeight(r) == r.weightInGrams

\* main.go 458-460: the weight after the re-estimation.
resolvedWeight(r) ==
    IF r.weightInGrams = RZero /\ RGt(r.quantity, RZero)
    THEN convertToGrams(r.quantity, r.measurementUnit)
    ELSE r.weightInGrams

\* main.go 462-463
skipUnit(measurementUnit) ==
    ToLower(measurementUnit) \in {Empty, Chars("100g"), Chars("100 g"), Chars("100grams"), Chars("100 grams")}

\* A variant of keepNatural without the test on the weight.
keepNaturalAnyWeight(r) == ~skipUnit(r.measurementUnit) /\ RGt(r.quantity, RZero)

\* main.go 464
keepNatural(r) ==
    ~skipUnit(r.measurementUnit) /\ RGt(r.quantity, RZero) /\ resolvedWeight(r) # RInt(100)

\* A variant of displayUnit that shows the unit as parsed.
displayUnitAsParsed(measurementUnit) == measurementUnit

\* main.go 465-467
displayUnit(measurementUnit) ==
    IF ByteLen(measurementUnit) > 1 /\ isAsciiOnly(measurementUnit)
    THEN toTitle(measurementUnit)
    ELSE measurementUnit

\* main.go 454-519: the serving sizes before the per-100g entry is appended.
naturalServings(p, r) ==
    IF p.ServingSize # Empty /\ keepNatural(r)
    THEN <<ServingSize(displayUnit(r.measurementUnit), r.servingType, r.quantity,
                       resolvedWeight(r), extractNutrients(p.Nutriments, "_serving"))>>
    ELSE <<>>

\* A variant of newFoodItem that lists the per-100g entry first.
newFoodItemPer100gFirst(p) ==
    [Name |-> name, OffID |-> p.ID, Brand |-> extractBrand(p.Brands), Barcode |-> p.Code,
     ServingSizes |-> <<per100gServing>> \o servingSizes, Allergens |-> allergens,
     IngredientAllergens |-> ingredientAllergens, Translations |-> translations]

\* main.go 523-532
newFoodItem(p) ==
    [Name |-> name, OffID |-> p.ID, Brand |-> extractBrand(p.Brands), Barcode |-> p.Code,
     ServingSizes |-> Append(servingSizes, per100gServing), Allergens |-> allergens,
     IngredientAllergens |-> ingredientAllergens, Translations |-> translations]

CheckKeys ==
    /\ pc = "start"
    /\ IF keyFieldsEmpty(product)
       THEN /\ pc' = "done"
            /\ foodItem' = NoItem
            /\ err' = EmptyKeyFields
       ELSE /\ pc' = "names"
            /\ UNCHANGED <<foodItem, err>>
    /\ UNCHANGED <<product, given, runs, previous, fn, main>>
    /\ UNCHANGED locals

CollectNames ==
    /\ pc = "names"
    /\ LET tr == registerDefault(product, collectTranslations(product))
       IN  /\ translations' = tr
           /\ \E first \in (IF DOMAIN tr = {} THEN {Empty} ELSE DOMAIN tr) :
                 name' = chooseName(product, tr, first)
    /\ pc' = "barcode"
    /\ UNCHANGED <<product, given, allergens, ingredientAllergens, per100gServing, parsed,
                   servingSizes, foodItem, err, runs, previous, fn, main>>

CheckNameAndBarcode ==
    /\ pc = "barcode"
    /\ IF nameAndBarcodeEmpty(name, product.Code)
       THEN /\ pc' = "done"
            /\ foodItem' = NoItem
            /\ err' = EmptyNameAndBarcode
       ELSE /\ pc' = "allergens"
            /\ UNCHANGED <<foodItem, err>>
    /\ UNCHANGED <<product, given, runs, previous, fn, main>>
    /\ UNCHANGED locals

\* The loop assigns through the slice: when that is product.AllergensTags
\* itself, the caller's elements are overwritten.
NormalizeAllergens ==
    /\ pc = "allergens"
    /\ allergens' = normalizeEach(allergenList(product))
    /\ product' = IF Len(product.AllergensTags) # 0
                  THEN [product EXCEPT !.AllergensTags = normalizeEach(allergenList(product))]
                  ELSE product
    /\ pc' = "ingredients"
    /\ UNCHANGED <<given, translations, name, ingredientAllergens, per100gServing, parsed,
                   servingSizes, foodItem, err, runs, previous, fn, main>>

HarvestIngredients ==
    /\ pc = "ingredients"
    /\ ingredientAllergens' = harvest(product.IngredientsTags, 1)
    /\ pc' = "per100g"
    /\ UNCHANGED <<product, given, translations, name, allergens, per100gServing, parsed,
                   servingSizes, foodItem, err, runs, previous, fn, main>>

Per100g ==
    /\ pc = "per100g"
    /\ per100gServing' = buildPer100g(product.Nutriments)
    /\ pc' = "serving"
    /\ UNCHANGED <<product, given, translations, name, allergens, ingredientAllergens, parsed,
                   servingSizes, foodItem, err, runs, previous, fn, main>>

NaturalServing ==
    /\ pc = "serving"
    /\ parsed' = IF product.ServingSize # Empty
                  THEN parseServingSize(product.ServingSize) ELSE NotParsed
    /\ servingSizes' = naturalServings(product, parsed')
    /\ pc' = "finish"
    /\ UNCHANGED <<product, given, translations, name, allergens, ingredientAllergens,
                   per100gServing, foodItem, err, runs, previous, fn, main>>

Finish ==
    /\ pc = "finish"
    /\ servingSizes' = Append(servingSizes, per100gServing)
    /\ foodItem' = newFoodItem(product)
    /\ err' = NoError
    /\ pc' = "done"
    /\ UNCHANGED <<product, given, translations, name, allergens, ingredientAllergens,
                   per100gServing, parsed, runs, previous, fn, main>>

\* The caller passes the same record again.
Rerun ==
    /\ pc = "done"
    /\ runs < MaxRuns
    /\ previous' = [foodItem |-> foodItem, err |-> err]
    /\ runs' = runs + 1
    /\ pc' = "start"
    /\ translations' = NoMap
    /\ name' = Empty
    /\ allergens' = <<>>
    /\ ingredientAllergens' = <<>>
    /\ per100gServing' = NoServing
    /\ parsed' = NotParsed
    /\ servingSizes' = <<>>
    /\ foodItem' = NoItem
    /\ err' = NoError
    /\ UNCHANGED <<product, given, fn, main>>

(***************************************************************************)
(* The records the model passes to ProcessProduct                          *)
(***************************************************************************)

Names(en, fr, es, hi) ==
    [l \in LanguageKeys |->
       CASE l = Chars("en") -> en
         [] l = Chars("fr") -> fr
         [] l = Chars("es") -> es
         [] l = Chars("hi") -> hi
         [] OTHER -> Empty]

SomeNutriments ==
    [k \in {"energy-kcal_100g", "proteins_100g", "fat_100g", "carbohydrates_100g",
            "sodium_100g", "vitamin-d_100g", "iron_100g", "proteins_serving", "fat_serving",
            "carbohydrates_serving", "energy-kcal_serving", "sodium_serving"} |->
       CASE k = "energy-kcal_100g" -> [k |-> "float64", v |-> RInt(250)]
         [] k = "proteins_100g" -> [k |-> "string", s |-> Chars(" 3.5 ")]
         [] k = "fat_100g" -> [k |-> "float64", v |-> Rat(15, 10)]
         [] k = "carbohydrates_100g" -> [k |-> "string", s |-> Chars("10")]
         [] k = "sodium_100g" -> [k |-> "float64", v |-> Rat(4, 10)]
         [] k = "vitamin-d_100g" -> [k |-> "float64", v |-> Rat(5, 1000000)]
         [] k = "iron_100g" -> [k |-> "other"]
         [] k = "proteins_serving" -> [k |-> "float64", v |-> RInt(2)]
         [] k = "fat_serving" -> [k |-> "float64", v |-> RInt(1)]
         [] k = "carbohydrates_serving" -> [k |-> "string", s |-> Chars("6.5")]
         [] k = "energy-kcal_serving" -> [k |-> "string", s |-> Chars("n/a")]
         [] k = "sodium_serving" -> [k |-> "string", s |-> Chars("0.1")]]

\* A map whose per-100g calories are a literal 0 and whose per-serving
\* calories are given.
LeanNutriments ==
    [k \in {"energy-kcal_100g", "proteins_100g", "fat_100g", "carbohydrates_100g",
            "energy-kcal_serving", "proteins_serving"} |->
       CASE k = "energy-kcal_100g" -> [k |-> "float64", v |-> RZero]
         [] k = "proteins_100g" -> [k |-> "float64", v |-> RInt(3)]
         [] k = "fat_100g" -> [k |-> "string", s |-> Chars("0.5")]
         [] k = "carbohydrates_100g" -> [k |-> "float64", v |-> RInt(12)]
         [] k = "energy-kcal_serving" -> [k |-> "string", s |-> Chars("120")]
         [] k = "proteins_serving" -> [k |-> "float64", v |-> RInt(7)]]

BaseProduct ==
    [ID |-> Chars("p1"), Code |-> Chars("0123"), ProductName |-> Chars("Oat Drink"),
     ProductNames |-> Names(Empty, Empty, Empty, Empty), Lang |-> Empty, Brands |-> Chars(" Acme , Other"),
     ServingSize |-> Empty, Nutriments |-> NoMap, Allergens |-> Empty,
     AllergensTags |-> <<>>, IngredientsTags |-> <<>>]

\* Sequences of at most n elements of S.
RECURSIVE SeqsUpTo(_, _)
SeqsUpTo(S, n) ==
    IF n = 0 THEN {<<>>}
    ELSE SeqsUpTo(S, n - 1) \cup {Append(q, x) : q \in {t \in SeqsUpTo(S, n - 1) : Len(t) = n - 1}, x \in S}

\* A record with names, a serving-size text, nutrients and tags.
RichProduct ==
    [BaseProduct EXCEPT !.ProductNames = Names(Empty, Chars("Boisson"), Chars("Bebida"), Empty),
                        !.ProductName = Empty,
                        !.ServingSize = Chars("1 cup (240 ml)"),
                        !.Nutriments = SomeNutriments,
                        !.AllergensTags = <<Chars("en:Milk"), Chars("en:gluten")>>,
                        !.IngredientsTags = <<Chars("en:oat"), Chars("en:Soy")>>]

ServingTexts ==
    StrSet(<<"200g", "200.0ml", "100 g", "100g", "100 grams", "100 g (50 g)", "100 g (100 g)",
             "100G", "100 G", "100GRAMS", "2 kg", "500 mg", "100000 mg", "1 l", ".1 l", "0 g",
             "1 BOTTLE (295 ml)", "2 SLICES (57 g)", "30 g (30 GRM)", "30g (30 g)",
             "1.5 g (1 TEA BAG)", "1 slice 1 oz / 28 g", "8 fl oz (1 glass)", "0 g (1 slice)",
             "8 FL.OZ (240 ml)", "1 cup", "2 cups (100 g)", "1/2 cup", "1 1/2 cup",
             "2/3 cup (80g) (about 3 pieces)", "slice 2 g", "bag 1 oz", "1 Tbsp (15 ml)",
             "1 ONZ (28 g)", "3 cookies", "3 cookies (45 g) |", "1,5 g", "1 tsp  (5\tg)",
             "(30 g)", "1 bar (40 g", "28 g (1 oz)", "28 g (oz)", "3.5274 oz", "0 slice",
             "0 slice (30 g)", "1 portion e", "1 pack (2 cups)", "chips 15 chips (28 g)",
             "Amount per serving 30 g", "12 g.", "250 ml (1 cup)", "1 l (4 servings)",
             "100 g (1 bowl)", "1 lb", "1 piece (0 g)", "1 piece (100 g)", "100 ml",
             "piece 100 g", "1 x (100 g)", "x", "g", "|", " ", "5", "5 (100 g)", "20 slices",
             "4 slices (100 g)">>)
    \cup {Chars("1 caf") \o <<SmallEAcute>>, <<SmallEAcute>>, Chars("100") \o <<NoBreakSpace>> \o Chars("g")}

\* The records: some differ in the key fields, with and without the other
\* fields; some in their names and declared language; some in their
\* allergen tags, allergen list and ingredient tags; some in their
\* serving-size text.
Products ==
    {[p EXCEPT !.ID = id, !.Code = code] :
        p \in {RichProduct, BaseProduct, [BaseProduct EXCEPT !.ProductName = Empty]},
        id \in {Empty, Chars("p1")}, code \in {Empty, Chars("0123")}}
    \cup
    {[BaseProduct EXCEPT !.ProductName = pn, !.ProductNames = Names(en, fr, es, hi),
                         !.Lang = lang] :
        pn \in {Empty, Chars("Oat Drink")},
        en \in {Empty, Chars("Oat drink EN")},
        fr \in {Empty, Chars("Boisson")},
        es \in {Empty, Chars("Bebida")},
        hi \in {Empty, Chars("Jaee")},
        lang \in {Empty, Chars("fr"), Chars("FR"), Chars("de")}}
    \cup
    {[BaseProduct EXCEPT !.AllergensTags = tags, !.Allergens = list, !.IngredientsTags = ing] :
        tags \in SeqsUpTo({Chars("en:milk"), Chars(" Peanut "), Chars("en:Unknown-Thing"),
                           Chars("por") \o <<KelvinSign>>}, MaxTags),
        list \in {Empty, Chars("Milk, en:eggs,unknown thing")},
        ing \in {<<>>, <<Chars("en:water"), Chars("en:Wheat"), Chars("en:milk"),
                         Chars("en:wheat")>>}}
    \cup
    {[BaseProduct EXCEPT !.ServingSize = text, !.Nutriments = nut] :
        text \in ServingTexts, nut \in {NoMap, SomeNutriments}}
    \cup
    {[BaseProduct EXCEPT !.ServingSize = text, !.Nutriments = LeanNutriments] :
        text \in StrSet(<<"", "1 cup", "2 SLICES (57 g)", "100 g">>)}

Init ==
    /\ product \in Products
    /\ given = product
    /\ pc = "start"
    /\ LocalsUntouched
    /\ foodItem = NoItem
    /\ err = NoError
    /\ runs = 1
    /\ previous = [foodItem |-> NoItem, err |-> NoError]
    /\ fn = [stage |-> "idle"]
    /\ main = [pc |-> "idle"]

Next ==
    \/ CheckKeys
    \/ CollectNames
    \/ CheckNameAndBarcode
    \/ NormalizeAllergens
    \/ HarvestIngredients
    \/ Per100g
    \/ NaturalServing
    \/ Finish
    \/ Rerun

Spec == Init /\ [][Next]_vars

(***************************************************************************)
(* The allergen functions on their own: a caller applies one of them to a  *)
(* raw string, and then to its own result.                                 *)
(***************************************************************************)

Call(f, x) ==
    IF f = "normalizeAllergen" THEN normalizeAllergen(x) ELSE extractIngredientAllergen(x)

\* The canonical tokens: the values of AllergenMap.
CanonicalTokens == {AllergenMap[k] : k \in AllergenKeys}

AllergenInputs ==
    {lead \o prefix \o core \o trail :
        lead \in {Empty, Chars(" "), <<NoBreakSpace>>},
        prefix \in StrSet(<<"", "EN:", "en:", "EN:EN:">>),
        core \in StrSet(<<"", "MILK", "Milk", "milk", "EGG", "Peanut", "tree nuts", "Tree_Nuts",
                          "unknown_thing", "Unknown_Thing", "gluten free", "EN", "en:">>)
                 \cup {Chars("por") \o <<KelvinSign>>, Chars("MIL") \o <<KelvinSign>>,
                       Chars("caf") \o <<SmallEAcute>>},
        trail \in {Empty, Chars(" ")}}
    \cup CanonicalTokens

InitAllergen ==
    /\ product = BaseProduct
    /\ given = BaseProduct
    /\ pc = "idle"
    /\ LocalsUntouched
    /\ foodItem = NoItem
    /\ err = NoError
    /\ runs = 1
    /\ previous = [foodItem |-> NoItem, err |-> NoError]
    /\ fn \in {[stage |-> "input", f |-> f, x |-> x, y |-> Empty, z |-> Empty] :
                 f \in {"normalizeAllergen", "extractIngredientAllergen"},
                 x \in AllergenInputs}
    /\ main = [pc |-> "idle"]

Apply ==
    /\ fn.stage = "input"
    /\ fn' = [fn EXCEPT !.stage = "applied", !.y = Call(fn.f, fn.x)]
    /\ UNCHANGED <<product, given, pc, foodItem, err, runs, previous, main>>
    /\ UNCHANGED locals

ApplyAgain ==
    /\ fn.stage = "applied"
    /\ fn' = [fn EXCEPT !.stage = "twice", !.z = Call(fn.f, fn.y)]
    /\ UNCHANGED <<product, given, pc, foodItem, err, runs, previous, main>>
    /\ UNCHANGED locals

SpecAllergen == InitAllergen /\ [][Apply \/ ApplyAgain]_vars

(***************************************************************************)
(* parseServingSize, mapNutrient and the unit tables on their own: a caller *)
(* passes one argument list to one of them.                                *)
(***************************************************************************)

\* Serving-size texts written to a shape, each with the parts it was written
\* from (the figures as text and as numbers).
ShapeTexts ==
    [shape \in {"bare", "label", "slash", "weightFirst"} |->
       CASE shape = "bare" ->
              {[text |-> n[1] \o sep \o u, n |-> n[2], u |-> u] :
                  n \in {<<Chars("200"), RInt(200)>>, <<Chars("0.5"), Rat(1, 2)>>,
                         <<Chars(".25"), Rat(1, 4)>>, <<Chars("0"), RZero>>},
                  sep \in StrSet(<<"", " ">>),
                  u \in StrSet(<<"g", "gr", "grm", "gram", "ml", "G", "Gr", "ML", "GRAM",
                                 "grams", "g.">>)}
         [] shape = "label" ->
              {[text |-> q[1] \o Chars(" ") \o l \o Chars(" (") \o w[1] \o sep \o u \o Chars(")"),
                qty |-> q[2], label |-> l, w |-> w[2], unit |-> u] :
                  q \in {<<Chars("2"), RInt(2)>>, <<Chars("1"), RInt(1)>>,
                         <<Chars("0.5"), Rat(1, 2)>>},
                  l \in StrSet(<<"SLICES", "BOTTLE", "Tbsp", "tea bags", "x">>)
                          \cup {Chars("CAF") \o <<CapitalEAcute>>},
                  w \in {<<Chars("57"), RInt(57)>>, <<Chars("295"), RInt(295)>>,
                         <<Chars("100"), RInt(100)>>, <<Chars("0.1"), Rat(1, 10)>>},
                  sep \in StrSet(<<"", " ">>),
                  u \in StrSet(<<"g", "ml", "kg", "oz", "GRM", "l", "mg", "ounces">>)}
         [] shape = "slash" ->
              {[text |-> q[1] \o Chars(" ") \o l \o Chars(" ") \o w1 \o Chars(" oz / ") \o w2[1]
                           \o Chars(" g"),
                qty |-> q[2], label |-> l, grams |-> w2[2]] :
                  q \in {<<Chars("1"), RInt(1)>>, <<Chars("2"), RInt(2)>>},
                  l \in StrSet(<<"slice", "bar", "PACK">>),
                  w1 \in StrSet(<<"1", "2.5">>),
                  w2 \in {<<Chars("28"), RInt(28)>>, <<Chars("71"), RInt(71)>>}}
         [] shape = "weightFirst" ->
              {[text |-> w \o sep \o u \o Chars(" (") \o q[1] \o Chars(" ") \o l \o Chars(")"),
                qty |-> q[2], label |-> l] :
                  w \in StrSet(<<"0", "0.0">>) , sep \in StrSet(<<"", " ">>),
                  u \in StrSet(<<"g", "ml", "oz">>),
                  q \in {<<Chars("1"), RInt(1)>>, <<Chars("3"), RInt(3)>>},
                  l \in StrSet(<<"slice", "Cups", "tbsp", "teaspoon", "cookies", "glass",
                                 "TEA BAG", "pack 30 g">>)}]

\* The argument lists: a text x for parseServingSize; a destination, a map, a
\* conversion and candidate keys for mapNutrient; a unit token x for
\* convertToGrams, isMetricUnit and isImperialUnit.
FunctionInputs ==
    {[stage |-> "input", f |-> "parseServingSize", x |-> text, field |-> RZero,
      nutriments |-> NoMap, unitConversion |-> "", keys |-> <<>>, y |-> Empty] :
        text \in ServingTexts
                   \cup StrSet(<<"", "1,5 (x", "1 (a) (b)", " (30 g) ", "1 piece (100 grams)",
                                 "(x", "2 x (", "1 bar (40 lb)">>)
                   \cup {r.text : r \in ShapeTexts["bare"] \cup ShapeTexts["label"]}
                   \cup {r.text : r \in ShapeTexts["slash"] \cup ShapeTexts["weightFirst"]}}
    \cup
    {[stage |-> "input", f |-> "mapNutrient", x |-> Empty, field |-> field,
      nutriments |-> nutriments, unitConversion |-> unitConversion, keys |-> keys,
      y |-> Empty] :
        field \in {RZero, RInt(7)},
        nutriments \in
            {[k \in ks |-> IF k = "a" THEN va ELSE vb] :
                ks \in SUBSET {"a", "b"},
                va \in {[k |-> "float64", v |-> Rat(5, 2)], [k |-> "string", s |-> Chars(" 3 ")],
                        [k |-> "string", s |-> Chars("n/a")], [k |-> "other"]},
                vb \in {[k |-> "float64", v |-> RInt(4)], [k |-> "string", s |-> Chars("")],
                        [k |-> "other"]}},
        unitConversion \in {"", "g_to_mg", "g_to_ug"},
        keys \in SeqsUpTo({"a", "b", "c"}, 2)}
    \cup
    {[stage |-> "input", f |-> "units", x |-> unit, field |-> RZero, nutriments |-> NoMap,
      unitConversion |-> "", keys |-> <<>>, y |-> Empty] :
        unit \in StrSet(<<"g", "gram", "grams", "gr", "grm", "g.", "gr.", "grm.", "kg",
                          "kilogram", "kilograms", "mg", "milligram", "milligrams", "oz",
                          "ounces", "oz.", "ounce", "onz", "ozn", "oza", "lb", "pound", "pounds",
                          "ml", "l", "liter", "litre", "liters", "litres", "fl oz", "cup", "slice",
                          "", "G", "Kg", "OZ", "FL OZ", "Serving", "mL">>)}

InitFunctions ==
    /\ product = BaseProduct
    /\ given = BaseProduct
    /\ pc = "idle"
    /\ LocalsUntouched
    /\ foodItem = NoItem
    /\ err = NoError
    /\ runs = 1
    /\ previous = [foodItem |-> NoItem, err |-> NoError]
    /\ fn \in FunctionInputs
    /\ main = [pc |-> "idle"]

\* parseServingSize on the text, and what ProcessProduct makes of its
\* results (main.go 454-519) for a record with that serving-size text.
CallParseServingSize ==
    /\ fn.stage = "input"
    /\ fn.f = "parseServingSize"
    /\ parsed' = parseServingSize(fn.x)
    /\ servingSizes' = naturalServings([BaseProduct EXCEPT !.ServingSize = fn.x], parsed')
    /\ fn' = [fn EXCEPT !.stage = "applied"]
    /\ UNCHANGED <<product, given, pc, translations, name, allergens, ingredientAllergens,
                   per100gServing, foodItem, err, runs, previous, main>>

CallMapNutrient ==
    /\ fn.stage = "input"
    /\ fn.f = "mapNutrient"
    /\ fn' = [fn EXCEPT !.stage = "applied",
                        !.y = mapNutrient(fn.field, fn.nutriments, fn.unitConversion, fn.keys)]
    /\ UNCHANGED <<product, given, pc, foodItem, err, runs, previous, main>>
    /\ UNCHANGED locals

CallUnitTables ==
    /\ fn.stage = "input"
    /\ fn.f = "units"
    /\ fn' = [fn EXCEPT !.stage = "applied",
                        !.y = [grams |-> convertToGrams(RInt(1), fn.x),
                               metric |-> isMetricUnit(ToLower(fn.x)),
                               imperial |-> isImperialUnit(ToLower(fn.x))]]
    /\ UNCHANGED <<product, given, pc, foodItem, err, runs, previous, main>>
    /\ UNCHANGED locals

NextFunctions == CallParseServingSize \/ CallMapNutrient \/ CallUnitTables

SpecFunctions == InitFunctions /\ [][NextFunctions]_vars

(***************************************************************************)
(* The loop of main (main.go 238-296)                                      *)
(***************************************************************************)

\* What the decoder finds next on its input: a value that is not JSON
\* (decode = "syntax"), a JSON value of the wrong type for a field
\* (decode = "type"), or a record (decode = "nil", the error of Decode);
\* encodes tells whether json.Encoder accepts the item made of the record
\* (it refuses an item with a NaN or infinite number).
Records ==
    {[decode |-> d, product |-> BaseProduct, encodes |-> TRUE] : d \in {"syntax", "type"}}
    \cup
    {[decode |-> "nil", product |-> p, encodes |-> e] :
        p \in {BaseProduct, [BaseProduct EXCEPT !.Code = Empty]}, e \in BOOLEAN}

\* main.go 211-237: the state before the first iteration.
InitMain ==
    /\ product = BaseProduct
    /\ given = BaseProduct
    /\ pc = "idle"
    /\ LocalsUntouched
    /\ foodItem = NoItem
    /\ err = NoError
    /\ runs = 1
    /\ previous = [foodItem |-> NoItem, err |-> NoError]
    /\ fn = [stage |-> "idle"]
    /\ \E stream \in SeqsUpTo(Records, MaxStream) :
          main = [pc |-> "top", decoder |-> stream, err |-> "nil", product |-> BaseProduct,
                  encodes |-> TRUE, lineCount |-> 0, processedCount |-> 0, chunkCount |-> 0,
                  currentFile |-> 0, files |-> <<>>]

\* main.go 239-252: the test at the top of every iteration.  currentFile is
\* 0 for nil and the number of the file otherwise; files[i] is the number of
\* items written to the i-th file created.
OpenChunk ==
    /\ main.pc = "top"
    /\ IF main.processedCount % CHUNK_SIZE = 0
       THEN /\ main.chunkCount < MaxChunks
            /\ main' = [main EXCEPT !.pc = "decode",
                                    !.files = Append(@, 0),
                                    !.currentFile = Len(main.files) + 1,
                                    !.chunkCount = @ + 1]
       ELSE main' = [main EXCEPT !.pc = "decode"]
    /\ UNCHANGED <<product, given, pc, foodItem, err, runs, previous, fn>>
    /\ UNCHANGED locals

\* main.go 253-264.  At the end of the input Decode returns io.EOF and the
\* loop is left for the completion message (main.go 295).  After a value
\* that is not JSON the decoder keeps its error and its position: every
\* later Decode returns the same error.  After a value of the wrong type
\* the decoder has moved past the value.
Decode ==
    /\ main.pc = "decode"
    /\ IF main.decoder = <<>>
       THEN main' = [main EXCEPT !.pc = "done", !.err = "EOF"]
       ELSE LET next == Head(main.decoder)
            IN  CASE next.decode = "syntax" ->
                       main' = [main EXCEPT !.pc = "top", !.err = "syntax"]
                  [] next.decode = "type" ->
                       main' = [main EXCEPT !.pc = "top", !.err = "type",
                                            !.decoder = Tail(@)]
                  [] OTHER ->
                       main' = [main EXCEPT !.pc = "process", !.err = "nil",
                                            !.decoder = Tail(@),
                                            !.product = next.product,
                                            !.encodes = next.encodes,
                                            !.lineCount = @ + 1]
    /\ UNCHANGED <<product, given, pc, foodItem, err, runs, previous, fn>>
    /\ UNCHANGED locals

\* main.go 266-291: ProcessProduct on the record (nil when the key fields
\* are empty or the name and the barcode are), Encode, WriteString and the
\* count of the written items.
WriteItem ==
    /\ main.pc = "process"
    /\ LET p == main.product
           tr == registerDefault(p, collectTranslations(p))
       IN  \E first \in (IF DOMAIN tr = {} THEN {Empty} ELSE DOMAIN tr) :
              IF \/ keyFieldsEmpty(p)
                 \/ nameAndBarcodeEmpty(chooseName(p, tr, first), p.Code)
                 \/ ~main.encodes
              THEN main' = [main EXCEPT !.pc = "top"]
              ELSE main' = [main EXCEPT !.pc = "top",
                                        !.files[main.currentFile] = @ + 1,
                                        !.processedCount = @ + 1]
    /\ UNCHANGED <<product, given, pc, foodItem, err, runs, previous, fn>>
    /\ UNCHANGED locals

NextMain == OpenChunk \/ Decode \/ WriteItem

SpecMain == InitMain /\ [][NextMain]_vars

\* The loop is sequential code: it takes its next step whenever it has one.
FairSpecMain == SpecMain /\ WF_vars(NextMain)

(***************************************************************************)
(* Properties of ProcessProduct                                            *)
(***************************************************************************)

Rejected == pc = "done" /\ foodItem = NoItem
Accepted == pc = "done" /\ err = NoError /\ foodItem # NoItem

\* The record has no default name and no per-language name.
NoNameOfAnyKind(p) ==
    p.ProductName = Empty /\ \A l \in LanguageKeys : p.ProductNames[l] = Empty

\* The per-100g entry as the properties read it.
IsPer100g(s) ==
    s.Quantity = RInt(100) /\ s.MeasurementUnit = Chars("g") /\ s.WeightInGrams = RInt(100)

\* C1: a record whose identifier or code is empty never gets past the key
\* check: no local of ProcessProduct is ever assigned and the record is not
\* touched, and the call returns no item and the rejection "product ID or
\* code is empty", whatever the other fields hold.
C1_KeyFieldsRejected ==
    (given.ID = Empty \/ given.Code = Empty) =>
        /\ pc \in {"start", "done"}
        /\ LocalsUntouched
        /\ product = given
        /\ pc = "done" => (foodItem = NoItem /\ err = EmptyKeyFields)

\* A record with an empty identifier, a code, names, allergen tags, nutrients
\* and a serving-size text has been rejected.
C1_Witness ==
    /\ Rejected
    /\ err = EmptyKeyFields
    /\ given.ID = Empty
    /\ given.Code # Empty
    /\ given.ServingSize # Empty
    /\ given.AllergensTags # <<>>
    /\ ~NoNameOfAnyKind(given)

\* C2 (as the code has it): a record with no name of any kind and an empty
\* code is rejected, and the reason is "product ID or code is empty"; the
\* reason "product name and barcode are empty" is never returned.
C2_NoNameNoCodeRejectedByKeyCheck ==
    /\ err # EmptyNameAndBarcode
    /\ (pc = "done" /\ NoNameOfAnyKind(given) /\ given.Code = Empty) =>
           (foodItem = NoItem /\ err = EmptyKeyFields)

\* A record with an identifier, no name of any kind and an empty code has
\* been rejected by the key check.
C2_Witness ==
    /\ Rejected
    /\ NoNameOfAnyKind(given)
    /\ given.Code = Empty
    /\ given.ID # Empty
    /\ err = EmptyKeyFields

\* C2 as stated: a record with no name of any kind and an empty code is
\* rejected with the reason "product name and barcode are empty".
C2_AsStated ==
    (pc = "done" /\ NoNameOfAnyKind(given) /\ given.Code = Empty) =>
        (foodItem = NoItem /\ err = EmptyNameAndBarcode)

\* C3 as stated: the second call on the same record returns what the first
\* returned.
C3_SecondRunIdentical ==
    (pc = "done" /\ runs = 2) => (foodItem = previous.foodItem /\ err = previous.err)

\* C4 as stated: when ProcessProduct has returned, every field of the
\* caller's record has the value it had before the call.
C4_InputUntouched == pc = "done" => product = given

\* C5: an accepted record lists exactly one serving size with quantity 100,
\* unit "g" and weight 100, whatever the serving-size text was.
C5_ExactlyOnePer100g ==
    Accepted =>
        Cardinality({i \in 1..Len(foodItem.ServingSizes) :
                        IsPer100g(foodItem.ServingSizes[i])}) = 1

\* A record whose text reads as 100 of the unit "g" weighing 100 g has been
\* accepted with the per-100g entry alone.
C5_Witness ==
    /\ Accepted
    /\ given.ServingSize = Chars("100 g (100 g)")
    /\ parsed.quantity = RInt(100)
    /\ parsed.measurementUnit = Chars("g")
    /\ parsed.weightInGrams = RInt(100)
    /\ Len(foodItem.ServingSizes) = 1

\* C6: an accepted record lists one or two serving sizes; the last is the
\* per-100g entry (quantity 100, unit "g", weight 100, class Metric), and a
\* second entry is the natural serving size, placed before it.
C6_Per100gLast ==
    Accepted =>
        LET sizes == foodItem.ServingSizes
        IN  /\ Len(sizes) \in {1, 2}
            /\ IsPer100g(sizes[Len(sizes)])
            /\ sizes[Len(sizes)].Type = 1
            /\ Len(sizes) = 2 =>
                  /\ sizes[1].Quantity = parsed.quantity
                  /\ sizes[1].Type = parsed.servingType
                  /\ ToLower(sizes[1].MeasurementUnit) = ToLower(parsed.measurementUnit)
                  /\ given.ServingSize # Empty

\* A record with a natural serving size has been accepted with two entries.
C6_Witness ==
    /\ Accepted
    /\ given.ServingSize = Chars("1 cup")
    /\ Len(foodItem.ServingSizes) = 2
    /\ foodItem.ServingSizes[1].MeasurementUnit = Chars("Cup")
    /\ foodItem.ServingSizes[1].WeightInGrams = RInt(240)

\* C7: the natural serving size is left out exactly when the text is empty,
\* or the parsed unit is empty or reads "100g", "100 g", "100grams" or
\* "100 grams" in any case, or the parsed quantity is not above 0, or the
\* weight is 100, where a parsed weight of 0 with a quantity above 0 is first
\* replaced by convertToGrams(quantity, unit).
C7_OmittedExactlyWhen ==
    Accepted =>
        LET reestimated ==
                IF parsed.weightInGrams = RZero /\ RGt(parsed.quantity, RZero)
                THEN convertToGrams(parsed.quantity, parsed.measurementUnit)
                ELSE parsed.weightInGrams
            omitted ==
                \/ given.ServingSize = Empty
                \/ ToLower(parsed.measurementUnit) \in
                      StrSet(<<"", "100g", "100 g", "100grams", "100 grams">>)
                \/ ~RGt(parsed.quantity, RZero)
                \/ reestimated = RInt(100)
        IN  /\ given.ServingSize # Empty => parsed = parseServingSize(given.ServingSize)
            /\ omitted <=> Len(foodItem.ServingSizes) = 1
            /\ ~omitted => foodItem.ServingSizes[1].WeightInGrams = reestimated

\* A natural serving size whose weight stays 0 has been kept.
C7_Witness ==
    /\ Accepted
    /\ given.ServingSize # Empty
    /\ Len(foodItem.ServingSizes) = 2
    /\ parsed.weightInGrams = RZero
    /\ foodItem.ServingSizes[1].WeightInGrams = RZero

\* C8: the display name of an accepted record is the English name when
\* there is one; otherwise the default name when there is one; otherwise the
\* name stored under the lower-cased declared language when there is one;
\* otherwise one of the names the record has; and empty only when the record
\* has no name of any kind.
C8_NamePriority ==
    Accepted =>
        LET names == given.ProductNames
            declared == ToLower(given.Lang)
            present == {names[l] : l \in LanguageKeys} \ {Empty}
        IN  /\ names[Chars("en")] # Empty => foodItem.Name = names[Chars("en")]
            /\ (names[Chars("en")] = Empty /\ given.ProductName # Empty) =>
                   foodItem.Name = given.ProductName
            /\ (names[Chars("en")] = Empty /\ given.ProductName = Empty
                  /\ declared \in LanguageKeys /\ names[declared] # Empty) =>
                   foodItem.Name = names[declared]
            /\ (given.ProductName = Empty /\ present # {}) => foodItem.Name \in present
            /\ foodItem.Name = Empty => NoNameOfAnyKind(given)

\* A record with no English and no default name, a French and a Spanish
\* name, and the declared language "FR" has been accepted under its French
\* name.
C8_Witness ==
    /\ Accepted
    /\ given.ProductNames[Chars("en")] = Empty
    /\ given.ProductName = Empty
    /\ given.Lang = Chars("FR")
    /\ given.ProductNames[Chars("es")] # Empty
    /\ foodItem.Name = given.ProductNames[Chars("fr")]
    /\ foodItem.Name # Empty

\* The value mapNutrient extracts for one key, with no conversion.
Extracted(nutriments, key) == mapNutrient(RZero, nutriments, "", <<key>>)

\* The calories an entry must carry, given the map and the suffix of its keys.
BackFilled(nutriments, suffix) ==
    IF Extracted(nutriments, "energy-kcal" \o suffix) = RZero
    THEN RAdd(RAdd(RMul(Extracted(nutriments, "proteins" \o suffix), RInt(4)),
                   RMul(Extracted(nutriments, "fat" \o suffix), RInt(9))),
              RMul(Extracted(nutriments, "carbohydrates" \o suffix), RInt(4)))
    ELSE Extracted(nutriments, "energy-kcal" \o suffix)

\* C11: in an accepted record the per-100g entry and the natural serving
\* entry each carry the calories extracted under their own keys when these
\* are not 0, and otherwise protein*4 + fat*9 + carbs*4 of the protein, fat
\* and carbs extracted for that same entry.
C11_CalorieBackFill ==
    Accepted =>
        LET sizes == foodItem.ServingSizes
            own(s, suffix) ==
                /\ s.Nutrients["Protein"] = Extracted(given.Nutriments, "proteins" \o suffix)
                /\ s.Nutrients["Fat"] = Extracted(given.Nutriments, "fat" \o suffix)
                /\ s.Nutrients["Carbs"] = Extracted(given.Nutriments, "carbohydrates" \o suffix)
                /\ s.Nutrients["Calories"] = BackFilled(given.Nutriments, suffix)
        IN  /\ own(sizes[Len(sizes)], "_100g")
            /\ Len(sizes) = 2 => own(sizes[1], "_serving")

\* A record whose per-serving calories do not coerce and whose per-100g
\* calories are 250 has been accepted: the natural entry carries
\* 2*4 + 1*9 + 6.5*4 = 43 and the per-100g entry 250.
C11_Witness ==
    /\ Accepted
    /\ given.Nutriments = SomeNutriments
    /\ Len(foodItem.ServingSizes) = 2
    /\ foodItem.ServingSizes[1].Nutrients["Calories"] = RInt(43)
    /\ foodItem.ServingSizes[2].Nutrients["Calories"] = RInt(250)

(***************************************************************************)
(* Properties of the allergen functions                                    *)
(***************************************************************************)

\* C9: both functions look up the trimmed, upper-cased string with one
\* leading "EN:" removed; on a hit both give the value of AllergenMap; on a
\* miss normalizeAllergen gives the lower-cased input as it came and
\* extractIngredientAllergen gives the empty string.
C9_LookupAndFallback ==
    fn.stage \in {"applied", "twice"} =>
        LET upper == ToUpper(TrimSpace(fn.x))
            key == IF Len(upper) >= 3 /\ SubSeq(upper, 1, 3) = Chars("EN:")
                   THEN SubSeq(upper, 4, Len(upper))
                   ELSE upper
        IN  /\ key \in AllergenKeys => fn.y = AllergenMap[key]
            /\ (key \notin AllergenKeys /\ fn.f = "normalizeAllergen") => fn.y = ToLower(fn.x)
            /\ (key \notin AllergenKeys /\ fn.f = "extractIngredientAllergen") => fn.y = Empty
            /\ (fn.x = Chars("EN:Milk")) => fn.y = Chars("milk")
            /\ (fn.x = Chars("unknown_thing") /\ fn.f = "normalizeAllergen") =>
                   fn.y = Chars("unknown_thing")
            /\ (fn.x = Chars("en:unknown_thing") /\ fn.f = "extractIngredientAllergen") =>
                   fn.y = Empty

\* normalizeAllergen has missed on a prefixed string in mixed case between
\* spaces, and has given it back in lower case with prefix and spaces kept.
C9_Witness ==
    /\ fn.stage = "applied"
    /\ fn.f = "normalizeAllergen"
    /\ fn.x = Chars(" en:Unknown_Thing ")
    /\ fn.y = Chars(" en:unknown_thing ")

\* C10 as stated: applying either function to its own result changes
\* nothing, and every canonical token is given back as it is.
C10_Idempotent ==
    fn.stage = "twice" =>
        /\ fn.z = fn.y
        /\ fn.x \in CanonicalTokens => fn.y = fn.x

\* C10, its last part as stated: a string that misses gives a result that
\* misses too.
C10_MissStaysMiss ==
    fn.stage = "twice" =>
        (allergenKey(fn.x) \notin AllergenKeys => allergenKey(fn.y) \notin AllergenKeys)

(***************************************************************************)
(* Properties of mapNutrient                                               *)
(***************************************************************************)

MapNutrientCalled == fn.stage = "applied" /\ fn.f = "mapNutrient"

\* The factor of a conversion.
Factor(unitConversion) ==
    CASE unitConversion = "g_to_mg" -> RInt(1000)
      [] unitConversion = "g_to_ug" -> RInt(1000000)
      [] OTHER -> RInt(1)

\* C12 (as the code has it): mapNutrient goes through the candidate keys in
\* order and writes, once, the value of the first key that the map holds AND
\* whose value coerces to a number, under the conversion; a key whose value
\* does not coerce is passed over and the later keys are still tried; the
\* destination keeps its prior value only when no key is both held and
\* coercible.
C12_FirstCoercibleKey ==
    MapNutrientCalled =>
        LET usable == {k \in 1..Len(fn.keys) :
                         /\ fn.keys[k] \in DOMAIN fn.nutriments
                         /\ toFloat64(fn.nutriments[fn.keys[k]]).ok}
            first == CHOOSE k \in usable : \A j \in usable : k <= j
        IN  /\ usable = {} => fn.y = fn.field
            /\ usable # {} =>
                  fn.y = RMul(toFloat64(fn.nutriments[fn.keys[first]]).v, Factor(fn.unitConversion))
            /\ toFloat64([k |-> "string", s |-> Chars(" 3 ")]) = [ok |-> TRUE, v |-> RInt(3)]
            /\ ~toFloat64([k |-> "string", s |-> Chars("n/a")]).ok
            /\ ~toFloat64([k |-> "string", s |-> Chars("")]).ok
            /\ ~toFloat64([k |-> "other"]).ok

\* The first key holds a string that does not coerce, the second a number:
\* the destination, 7 before, has been written with the second under g_to_mg.
C12_Witness ==
    /\ MapNutrientCalled
    /\ fn.keys = <<"a", "b">>
    /\ fn.nutriments = [k \in {"a", "b"} |->
                          IF k = "a" THEN [k |-> "string", s |-> Chars("n/a")]
                          ELSE [k |-> "float64", v |-> RInt(4)]]
    /\ fn.unitConversion = "g_to_mg"
    /\ fn.field = RInt(7)
    /\ fn.y = RInt(4000)

\* C12 as stated: the first key the map holds decides; when its value does
\* not coerce the destination keeps its prior value and no later key is used.
C12_AsStated ==
    MapNutrientCalled =>
        LET present == {k \in 1..Len(fn.keys) : fn.keys[k] \in DOMAIN fn.nutriments}
            first == CHOOSE k \in present : \A j \in present : k <= j
        IN  IF present = {} \/ ~toFloat64(fn.nutriments[fn.keys[first]]).ok
            THEN fn.y = fn.field
            ELSE fn.y = RMul(toFloat64(fn.nutriments[fn.keys[first]]).v,
                             Factor(fn.unitConversion))

(***************************************************************************)
(* Properties of parseServingSize                                          *)
(***************************************************************************)

ParseCalled == fn.stage = "applied" /\ fn.f = "parseServingSize"

\* C13 as stated: a bare number n followed, with or without a space, by a
\* unit of the conversion table in any letter case that weighs n as n, is
\* read as 1 "Serving" of weight n, class Other.
C13_CollapseAsStated ==
    ParseCalled =>
        \A r \in ShapeTexts["bare"] :
            (fn.x = r.text /\ convertToGrams(r.n, r.u) = r.n) =>
                parsed = Parsed(RInt(1), Chars("Serving"), r.n, 3)

\* "200G" has missed the case-sensitive first pattern and has been read by
\* the second as 1 "200G" of 200 g.
C13_Witness ==
    /\ ParseCalled
    /\ fn.x = Chars("200G")
    /\ convertToGrams(RInt(200), Chars("G")) = RInt(200)
    /\ ~Find(bareWeightPattern, FALSE, cleanServingSize(fn.x)).found
    /\ parsed = Parsed(RInt(1), Chars("200G"), RInt(200), 3)

\* The label with its first letter upper-cased and the rest lower-cased when
\* it is longer than one character and ASCII, and as written otherwise.
TitleCased(label) ==
    IF Len(label) > 1 /\ \A i \in 1..Len(label) : label[i] \notin NonAscii
    THEN <<ToUpperRune(label[1])>> \o [i \in 1..(Len(label) - 1) |-> ToLowerRune(label[i + 1])]
    ELSE label

Unmatched(s) ==
    /\ ~Find(bareWeightPattern, FALSE, s).found
    /\ \A pattern \in {labelWeightPattern, qtyLabelWeightPattern, bottlePattern, slashPattern,
                       weightFirstPattern, slicesPattern, gramConfirmPattern, reUnit, reSimple} :
          ~Find(pattern, TRUE, s).found

\* Texts no pattern matches, and the text each leaves after cleaning.
UnmatchedTexts ==
    {<<Chars(""), Chars("")>>, <<Chars(" "), Chars("")>>, <<Chars("|"), Chars("")>>,
     <<Chars("1,5 (x"), Chars("1.5 (x")>>, <<Chars("1 (a) (b)"), Chars("1 (a)")>>,
     <<Chars(" (30 g) "), Chars("(30 g)")>>, <<Chars("1 bar (40 g"), Chars("1 bar (40 g")>>,
     <<Chars("1 piece (100 grams)"), Chars("1 piece (100 grams)")>>,
     <<Chars("(x"), Chars("(x")>>}

\* C15 (as the code has it): for the empty text and for every text that no
\* pattern matches once cleaned, the result is quantity 1, the CLEANED text
\* as unit label, weight 0 and class Other.
C15_FallbackIsCleanedText ==
    ParseCalled =>
        /\ Unmatched(cleanServingSize(fn.x)) =>
              parsed = Parsed(RInt(1), cleanServingSize(fn.x), RZero, 3)
        /\ \A t \in UnmatchedTexts :
              fn.x = t[1] => parsed = Parsed(RInt(1), t[2], RZero, 3)

\* "1,5 (x" has fallen through every pattern and come back as 1 "1.5 (x".
C15_Witness ==
    /\ ParseCalled
    /\ fn.x = Chars("1,5 (x")
    /\ Unmatched(cleanServingSize(fn.x))
    /\ parsed = Parsed(RInt(1), Chars("1.5 (x"), RZero, 3)

\* C15 as stated: for every text that no pattern matches, the unit label is
\* the original text.
C15_AsStated ==
    ParseCalled =>
        (Unmatched(cleanServingSize(fn.x)) => parsed = Parsed(RInt(1), fn.x, RZero, 3))

\* C16 as stated: a text `qty label w1 oz / w2 g` is read as quantity qty,
\* unit label `label` and weight w2.
C16_SlashAsStated ==
    ParseCalled =>
        \A r \in ShapeTexts["slash"] :
            fn.x = r.text =>
                /\ parsed.quantity = r.qty
                /\ parsed.measurementUnit = r.label
                /\ parsed.weightInGrams = r.grams

\* "1 slice 1 oz / 28 g" has been read by the second pattern: the label is
\* everything after the quantity and the weight is that of the ounce.
C16_Witness ==
    /\ ParseCalled
    /\ fn.x = Chars("1 slice 1 oz / 28 g")
    /\ Find(labelWeightPattern, TRUE, cleanServingSize(fn.x)).found
    /\ parsed = Parsed(RInt(1), Chars("slice 1 oz / 28 g"), Rat(283495, 10000), 3)

\* C17 as stated: a text `weight unit (qty label)` whose weight reads 0 gets
\* the weight embedded in its label, or else the estimate of the ratio
\* table for its label and quantity.
C17_FallbackAsStated ==
    ParseCalled =>
        \A r \in ShapeTexts["weightFirst"] :
            fn.x = r.text =>
                parsed.weightInGrams =
                    IF extractWeightFromMeasurementUnit(r.label) # RZero
                    THEN extractWeightFromMeasurementUnit(r.label)
                    ELSE estimateWeightFromUnit(r.qty, r.label)

\* "0 g (1 slice)" has been read as 1 "slice" of weight 0, not 28.
C17_Witness ==
    /\ ParseCalled
    /\ fn.x = Chars("0 g (1 slice)")
    /\ estimateWeightFromUnit(RInt(1), Chars("slice")) = RInt(28)
    /\ parsed = Parsed(RInt(1), Chars("slice"), RZero, 3)

(***************************************************************************)
(* Properties of the unit tables                                           *)
(***************************************************************************)

\* C20 as stated: no unit is both metric and imperial, and a unit weighs
\* something exactly when it is metric or imperial.
C20_TablesAgreeAsStated ==
    (fn.stage = "applied" /\ fn.f = "units") =>
        /\ ~(fn.y.metric /\ fn.y.imperial)
        /\ fn.y.grams # RZero <=> (fn.y.metric \/ fn.y.imperial)

\* "mg" weighs a thousandth of a gram and is neither metric nor imperial.
C20_Witness ==
    /\ fn.stage = "applied"
    /\ fn.f = "units"
    /\ fn.x = Chars("mg")
    /\ fn.y = [grams |-> Rat(1, 1000), metric |-> FALSE, imperial |-> FALSE]

(***************************************************************************)
(* Properties of the loop of main                                          *)
(***************************************************************************)

\* C18 as stated: every chunk file other than the last one created holds
\* exactly CHUNK_SIZE items and no file holds more, so that a skipped record
\* never leaves an extra empty file.
C18_ChunksAsStated ==
    \A i \in 1..Len(main.files) :
        /\ main.files[i] <= CHUNK_SIZE
        /\ i < Len(main.files) => main.files[i] = CHUNK_SIZE

\* A rejected record followed by an accepted one has been read to the end
\* of the input: the first file is empty and the second holds the item.
C18_Witness ==
    /\ main.pc = "done"
    /\ main.lineCount = 2
    /\ main.processedCount = 1
    /\ main.chunkCount = 2
    /\ main.files = <<0, 1>>

\* C19 as stated: on every finite input the loop reaches the end of the
\* input and the completion message (the runs that reach the bound on the
\* chunk files are left aside).
C19_TerminatesAsStated == <>(main.pc = "done" \/ main.chunkCount = MaxChunks)

\* After an item has been written, Decode has failed on a value that is not
\* JSON and the loop is back at its top with the input where it was.
C19_Witness ==
    /\ main.pc = "top"
    /\ main.err = "syntax"
    /\ main.processedCount = 1
    /\ main.decoder # <<>>
    /\ Head(main.decoder).decode = "syntax"

====
